---- MODULE Spec2Model ----
(***************************************************************************)
(* vendingbench: a scenario is built turn by turn, run against a model     *)
(* adapter by ConversationManager.run_scenario, and the transcript is      *)
(* scored by Evaluator.evaluate.                                           *)
(*                                                                         *)
(* Texts are sequences of one-character strings, so that pattern matching  *)
(* is computed on characters.  An optional value (Python None or a value)  *)
(* is the empty sequence or a one-element sequence.  A Python value whose  *)
(* truthiness matters is a record [type, truth].                           *)
(***************************************************************************)
EXTENDS Integers, Sequences, FiniteSets, TLC

\* ------------------------------------------------------------------ bounds
MaxTurns == 2
MaxValidators == 2
MaxEvals == 2
MaxMetrics == 3
MaxPatternLen == 2
MaxTextLen == 2
MaxMessages == 4
MaxCalls == 3
MaxOps == 4

\* ------------------------------------------------------------ Python values
None == <<>>
Some(x) == <<x>>

PyTrue == [type |-> "bool", truth |-> TRUE]
PyFalse == [type |-> "bool", truth |-> FALSE]
PyNone == [type |-> "NoneType", truth |-> FALSE]
PyStr == [type |-> "str", truth |-> TRUE]
PyBool(b) == IF b THEN PyTrue ELSE PyFalse
Truthy(v) == v.truth

\* A float that is a ratio of two small naturals, in lowest terms.
RECURSIVE Gcd(_, _)
Gcd(a, b) == IF b = 0 THEN a ELSE Gcd(b, a % b)
Ratio(n, d) == <<n \div Gcd(n, d), d \div Gcd(n, d)>>
Float0 == Ratio(0, 1)
Float1 == Ratio(1, 1)

\* ------------------------------------------------------------------- texts
Lower(c) == IF c = "A" THEN "a" ELSE IF c = "B" THEN "b" ELSE c

\* str.__contains__ on the lowered strings: pattern.lower() in text.lower()
SubstringCI(pattern, text) ==
    \E s \in 0..(Len(text) - Len(pattern)) :
        \A k \in 1..Len(pattern) : Lower(text[s + k]) = Lower(pattern[k])

\* A repetition count no smaller than MAXREPEAT, as one token of a pattern.
BigRepeat == "{4294967296}"

\* re.compile: parsing goes left to right and stops at the first token it
\* rejects.  A character set that is opened and never closed is a re.error;
\* a repetition count that is too large is an OverflowError, which is not a
\* re.error.
Rejected(c) == c = "[" \/ c = BigRepeat
re_compile(pattern) ==
    IF \A k \in 1..Len(pattern) : ~Rejected(pattern[k]) THEN "ok"
    ELSE IF \E k \in 1..Len(pattern) :
                /\ pattern[k] = "["
                /\ \A j \in 1..(k - 1) : ~Rejected(pattern[j])
         THEN "re.error"
         ELSE "OverflowError"

RegexValid(pattern) == \A k \in 1..Len(pattern) : ~Rejected(pattern[k])

\* re.match of pattern[k..] at text position pos (1-based), re.IGNORECASE:
\* "." is any character, "$" is the end of the text, others are literals.
RECURSIVE RegexMatchAt(_, _, _, _)
RegexMatchAt(pattern, k, text, pos) ==
    IF k > Len(pattern) THEN TRUE
    ELSE IF pattern[k] = "$" THEN
        pos = Len(text) + 1 /\ RegexMatchAt(pattern, k + 1, text, pos)
    ELSE IF pattern[k] = "." THEN
        pos <= Len(text) /\ RegexMatchAt(pattern, k + 1, text, pos + 1)
    ELSE
        /\ pos <= Len(text)
        /\ Lower(text[pos]) = Lower(pattern[k])
        /\ RegexMatchAt(pattern, k + 1, text, pos + 1)

RegexSearch(pattern, text) ==
    \E pos \in 1..(Len(text) + 1) : RegexMatchAt(pattern, 1, text, pos)

\* the regular-expression search alone, without the substring fallback
_pattern_matches_regex_only(pattern, text) ==
    IF RegexValid(pattern)
    THEN [raised |-> FALSE, value |-> RegexSearch(pattern, text)]
    ELSE IF re_compile(pattern) = "re.error"
    THEN [raised |-> FALSE, value |-> FALSE]
    ELSE [raised |-> TRUE, value |-> FALSE]

\* Evaluator._pattern_matches: how the call ends.  raised: an exception left
\* the call (only re.error is caught); value: the boolean it returned.
_pattern_matches(pattern, text) ==
    IF RegexValid(pattern)
    THEN [raised |-> FALSE,
          value |-> IF RegexSearch(pattern, text) THEN TRUE
                    ELSE SubstringCI(pattern, text)]
    ELSE IF re_compile(pattern) = "re.error"
    THEN [raised |-> FALSE, value |-> SubstringCI(pattern, text)]
    ELSE [raised |-> TRUE, value |-> FALSE]

\* ------------------------------------------------------- scenario building
USER_INPUT == "user_input"
STATE_CHECK == "state_check"

ConversationTurn(turn_type, content, expected_patterns) ==
    [turn_type |-> turn_type, content |-> content,
     expected_patterns |-> expected_patterns]

\* The patterns and the inputs the scenarios of the model are built from.
PatA == <<"a">>
PatPrice == <<"$", "5">>

\* add_user_input(content) and add_user_input(content, expected_patterns)
UserInputs ==
    {[content |-> <<"h", "i">>, expected_patterns |-> None],
     [content |-> <<"b", "u", "y">>, expected_patterns |-> Some(<<PatA, PatPrice>>)]}
\* add_state_check(description, expected_patterns)
StateChecks ==
    {[description |-> <<"c", "h", "k">>, expected_patterns |-> <<PatPrice>>]}

\* What a model can answer.
ResponseContents == {<<"A", "$", "5">>, <<"a", "b">>}

\* ScenarioConfig: name, system_prompt (optional), temperature in tenths,
\* max_tokens (optional).
ScenarioConfig(name, system_prompt, temperature, max_tokens) ==
    [name |-> name, system_prompt |-> system_prompt,
     temperature |-> temperature, max_tokens |-> max_tokens]

DefaultTemperature == 7

Configs ==
    {ScenarioConfig("test", None, DefaultTemperature, None),
     ScenarioConfig("test", Some(<<>>), 2, Some(50)),
     ScenarioConfig("vend", Some(<<"s", "y", "s">>), 2, Some(50))}

\* The validator functions of the model: what each does when invoked (it
\* returns ret, or raises an Exception whose message is error).
Validators ==
    {[name |-> "always_pass", raises |-> FALSE, ret |-> PyTrue, error |-> ""],
     [name |-> "always_fail", raises |-> FALSE, ret |-> PyFalse, error |-> ""],
     [name |-> "says_ok", raises |-> FALSE, ret |-> PyStr, error |-> ""],
     [name |-> "boom", raises |-> TRUE, ret |-> PyNone, error |-> "boom failed"]}

\* Scenario.__init__
NewScenario(config) == [config |-> config, turns |-> <<>>, validators |-> <<>>]

\* add_turn that puts the new turn first
add_turn_prepend(s, turn) == [s EXCEPT !.turns = <<turn>> \o @]

\* Scenario.add_turn
add_turn(s, turn) == [s EXCEPT !.turns = Append(@, turn)]

\* Scenario.add_user_input: expected_patterns or []
add_user_input(s, content, expected_patterns) ==
    add_turn(s, ConversationTurn(USER_INPUT, content,
                 IF expected_patterns = None THEN <<>> ELSE expected_patterns[1]))

\* Scenario.add_state_check
add_state_check(s, description, expected_patterns) ==
    add_turn(s, ConversationTurn(STATE_CHECK, description, expected_patterns))

\* Scenario.add_validator
add_validator(s, validator) == [s EXCEPT !.validators = Append(@, validator)]

\* `is not None` in place of the truth test: an empty prompt is sent too
get_system_message_not_none(s) ==
    IF s.config.system_prompt # None
    THEN Some([role |-> "system", content |-> s.config.system_prompt[1]])
    ELSE None

\* Scenario.get_system_message: None when the prompt is None or empty
get_system_message(s) ==
    IF s.config.system_prompt # None /\ s.config.system_prompt[1] # <<>>
    THEN Some([role |-> "system", content |-> s.config.system_prompt[1]])
    ELSE None

\* ------------------------------------------------------------- transcript
\* ConversationHistory()
NewHistory == [messages |-> <<>>, responses |-> <<>>, metadata |-> <<>>]

\* history.metadata[key] = value
SetMeta(h, key, value) ==
    [h EXCEPT !.metadata =
        [k \in (DOMAIN @) \cup {key} |-> IF k = key THEN value ELSE @[k]]]

\* dict.get(key, default)
MetaGet(metadata, key, default) ==
    IF key \in DOMAIN metadata THEN metadata[key] ELSE default

\* add_message that puts the new message first
add_message_prepend(h, role, content) ==
    [h EXCEPT !.messages = <<[role |-> role, content |-> content]>> \o @]

\* ConversationHistory.add_message
add_message(h, role, content) ==
    [h EXCEPT !.messages = Append(@, [role |-> role, content |-> content])]

\* add_response that forgets the assistant message
add_response_no_message(h, response) ==
    [h EXCEPT !.responses = Append(@, response)]

\* add_response that records the assistant message without its text
add_response_empty_text(h, response) ==
    add_message([h EXCEPT !.responses = Append(@, response)],
                "assistant", <<>>)

\* ConversationHistory.add_response
add_response(h, response) ==
    add_message([h EXCEPT !.responses = Append(@, response)],
                "assistant", response.content)

\* get_messages that hands over the newest message only
get_messages_incremental(h) == <<h.messages[Len(h.messages)]>>

\* ConversationHistory.get_messages: a copy of the list
get_messages(h) == h.messages

\* Lists as objects: a list has an identity besides its items, and a change
\* made through one reference is seen through every reference to the same
\* list.  The list in the messages field of a transcript:
MessagesObject(h) == [id |-> "history.messages", items |-> h.messages]

\* return self.messages: the caller gets the transcript's own list
list_same(l) == l

\* list.copy(): a new list with the same items
list_copy(l) == [id |-> "copy", items |-> l.items]

\* ConversationHistory.get_messages, as the list object it returns
get_messages_object(h) == list_copy(MessagesObject(h))

\* The transcript h after list object l was changed: the change shows in
\* h.messages exactly when l is that list.
Store(h, l) ==
    IF l.id = MessagesObject(h).id THEN [h EXCEPT !.messages = l.items] ELSE h

\* LLMResponse
LLMResponse(content, model) == [content |-> content, model |-> model]


\* LLMInterface.model_name of the adapter under test
ModelName == "mock-model"

\* ------------------------------------------------------------ the adapter
\* MockLLM.__init__(responses=...): responses or []
MockLLM(responses) ==
    [responses |-> IF responses = None THEN <<>> ELSE responses[1],
     response_index |-> 0,
     call_count |-> 0]

\* LLMInterface.validate_messages, on a list of dicts
validate_messages(messages) ==
    /\ messages # <<>>
    /\ \A k \in 1..Len(messages) :
          /\ "role" \in DOMAIN messages[k]
          /\ "content" \in DOMAIN messages[k]
          /\ messages[k].role \in {"system", "user", "assistant"}

\* f"Mock response to: {content}" and "Mock response with no user input"
EchoPrefix == <<"M", "o", "c", "k", " ", "r", "e", "s", "p", "o", "n", "s", "e", " ", "t", "o", ":", " ">>
NoUserInputContent ==
    <<"M", "o", "c", "k", " ", "r", "e", "s", "p", "o", "n", "s", "e", " ", "w", "i", "t", "h", " ", "n", "o">> \o
    <<" ", "u", "s", "e", "r", " ", "i", "n", "p", "u", "t">>

\* The LLMResponse of MockLLM.generate, with the metadata it fills in.
MockResponse(content, model, call_count, temperature, max_tokens) ==
    [content |-> content, model |-> model,
     metadata |-> [call_count |-> call_count, temperature |-> temperature,
                   max_tokens |-> max_tokens]]

\* generate that counts the call before it validates the messages
generate_count_first(self, messages, temperature, max_tokens) ==
    LET counted == [self EXCEPT !.call_count = @ + 1]
        scripted == /\ self.responses # <<>>
                    /\ self.response_index < Len(self.responses)
        user_messages == SelectSeq(messages, LAMBDA m : m.role = "user")
        content ==
            IF scripted THEN self.responses[self.response_index + 1]
            ELSE IF user_messages # <<>>
            THEN EchoPrefix \o user_messages[Len(user_messages)].content
            ELSE NoUserInputContent
        after == IF scripted
                 THEN [counted EXCEPT !.response_index = @ + 1]
                 ELSE counted
    IN  IF ~validate_messages(messages)
        THEN [raised |-> TRUE, llm |-> counted, response |-> None]
        ELSE [raised |-> FALSE,
              llm |-> after,
              response |-> Some(MockResponse(content, ModelName, after.call_count,
                                             temperature, max_tokens))]

\* generate that hands out the scripted response without moving on
generate_no_advance(self, messages, temperature, max_tokens) ==
    IF ~validate_messages(messages)
    THEN [raised |-> TRUE, llm |-> self, response |-> None]
    ELSE
        LET counted == [self EXCEPT !.call_count = @ + 1]
            scripted == /\ self.responses # <<>>
                        /\ self.response_index < Len(self.responses)
            user_messages == SelectSeq(messages, LAMBDA m : m.role = "user")
            content ==
                IF scripted THEN self.responses[self.response_index + 1]
                ELSE IF user_messages # <<>>
                THEN EchoPrefix \o user_messages[Len(user_messages)].content
                ELSE NoUserInputContent
        IN  [raised |-> FALSE,
             llm |-> counted,
             response |-> Some(MockResponse(content, ModelName, counted.call_count,
                                            temperature, max_tokens))]

\* MockLLM.generate: how the call ends.  raised: ValueError("Invalid message
\* format") left the call; llm: the adapter after the call; response: the
\* LLMResponse returned, or None.
generate(self, messages, temperature, max_tokens) ==
    IF ~validate_messages(messages)
    THEN [raised |-> TRUE, llm |-> self, response |-> None]
    ELSE
        LET counted == [self EXCEPT !.call_count = @ + 1]
            scripted == /\ self.responses # <<>>
                        /\ self.response_index < Len(self.responses)
            user_messages == SelectSeq(messages, LAMBDA m : m.role = "user")
            content ==
                IF scripted THEN self.responses[self.response_index + 1]
                ELSE IF user_messages # <<>>
                THEN EchoPrefix \o user_messages[Len(user_messages)].content
                ELSE NoUserInputContent
            after == IF scripted
                     THEN [counted EXCEPT !.response_index = @ + 1]
                     ELSE counted
        IN  [raised |-> FALSE,
             llm |-> after,
             response |-> Some(MockResponse(content, ModelName, after.call_count,
                                            temperature, max_tokens))]

\* str.split(): the maximal runs of characters that are not whitespace
IsSpace(c) == c = " "
RECURSIVE Split(_, _, _)
Split(content, k, word) ==
    IF k > Len(content)
    THEN IF word = <<>> THEN <<>> ELSE <<word>>
    ELSE IF IsSpace(content[k])
    THEN (IF word = <<>> THEN <<>> ELSE <<word>>) \o Split(content, k + 1, <<>>)
    ELSE Split(content, k + 1, Append(word, content[k]))
split(content) == Split(content, 1, <<>>)

\* MockLLM.generate_stream, consumed to its end: generate is called, then
\* every word of the content is yielded with a space after it.
generate_stream(self, messages, temperature, max_tokens) ==
    LET g == generate(self, messages, temperature, max_tokens)
    IN  [raised |-> g.raised,
         llm |-> g.llm,
         chunks |-> IF g.raised THEN <<>>
                    ELSE [k \in 1..Len(split(g.response[1].content)) |->
                             Append(split(g.response[1].content)[k], " ")]]

\* reset that forgets the position in the script
reset_count_only(self) == [self EXCEPT !.call_count = 0]

\* MockLLM.reset
reset(self) == [self EXCEPT !.response_index = 0, !.call_count = 0]

\* continue_conversation that returns the response without recording it
continue_conversation_no_append(self, h, user_input, temperature, max_tokens) ==
    LET h1 == add_message(h, "user", user_input)
        args == [messages |-> get_messages(h1), temperature |-> temperature,
                 max_tokens |-> max_tokens]
        g == generate(self, args.messages, args.temperature, args.max_tokens)
    IN  [args |-> args, raised |-> g.raised, response |-> g.response,
         history |-> h1, llm |-> g.llm]

\* ConversationManager.continue_conversation(history, user_input, temperature,
\* max_tokens) on a manager whose adapter is self: how the call ends.
\*   args: what generate was called with; raised: the exception of generate
\*   left the call; response: the LLMResponse returned, or None; history,
\*   llm: the transcript and the adapter after the call.
continue_conversation(self, h, user_input, temperature, max_tokens) ==
    LET h1 == add_message(h, "user", user_input)
        args == [messages |-> get_messages(h1), temperature |-> temperature,
                 max_tokens |-> max_tokens]
        g == generate(self, args.messages, args.temperature, args.max_tokens)
    IN  IF g.raised
        THEN [args |-> args, raised |-> TRUE, response |-> None,
              history |-> h1, llm |-> g.llm]
        ELSE [args |-> args, raised |-> FALSE, response |-> g.response,
              history |-> add_response(h1, g.response[1]), llm |-> g.llm]

\* Evaluator.__init__: self.custom_validators = {}
NewEvaluator == [custom_validators |-> <<>>]

\* --------------------------------------------------------------- the state
VARIABLES
    scenario,      \* the Scenario the caller builds, runs and evaluates
    pc,            \* "idle", or "run_scenario" while that call is in progress
    fresh,         \* the scenario is still the one the latest run_scenario was
                   \* called with (nothing was appended to it since)
    history,       \* run_scenario's local ConversationHistory
    i,             \* run_scenario: index of the next turn (1-based)
    calls,         \* the generate calls of the latest run_scenario, in order,
                   \* each with what it was given and what it returned
    run_outcome,   \* how the latest run_scenario ended: "none", "returned", "raised"
    returned,      \* what the latest run_scenario returned: None or Some(history)
    results,       \* the evaluate calls made so far on the current scenario
                   \* and transcript, in order: what each did and returned
    obj,           \* an EvaluationResult the caller constructs directly, or None
    arg_pattern,   \* the pattern of a direct _pattern_matches call
    arg_text,      \* the text of that call
    match_out,     \* how that call ended: None before it, then Some(outcome)
    llm,           \* a MockLLM: responses, response_index, call_count
    transcript,    \* a ConversationHistory the caller owns and extends
    ops,           \* the calls the caller made on the scenario or on the
                   \* transcript, in order, each with what it returned
    out,           \* how the latest call on the adapter or on the manager
                   \* ended: None before the first, then Some(outcome)
    evaluator,     \* an Evaluator: its custom_validators mapping
    held           \* a list get_messages returned and the caller still holds:
                   \* None, or Some(list object)

vars == <<scenario, pc, fresh, history, i, calls, run_outcome, returned,
          results, obj, arg_pattern, arg_text, match_out, llm, transcript, ops, out,
          evaluator, held>>
runVars == <<history, i, calls, run_outcome, returned>>
matchVars == <<arg_pattern, arg_text, match_out>>
callerVars == <<llm, transcript, ops, out>>
holderVars == <<evaluator, held>>

\* Nothing has been run or evaluated yet.
PipelineIdle ==
    /\ pc = "idle"
    /\ fresh = FALSE
    /\ history = NewHistory
    /\ i = 1
    /\ calls = <<>>
    /\ run_outcome = "none"
    /\ returned = None
    /\ results = <<>>
    /\ obj = None

\* No direct _pattern_matches call is under way.
NoMatchCall ==
    /\ arg_pattern = <<>>
    /\ arg_text = <<>>
    /\ match_out = None

\* The caller holds a MockLLM() and an empty ConversationHistory() and has
\* not used them.
CallerIdle ==
    /\ llm = MockLLM(None)
    /\ transcript = NewHistory
    /\ ops = <<>>
    /\ out = None

\* The caller holds an Evaluator() and no list of messages.
HolderIdle ==
    /\ evaluator = NewEvaluator
    /\ held = None

Init ==
    /\ scenario \in {NewScenario(c) : c \in Configs}
    /\ PipelineIdle
    /\ NoMatchCall
    /\ CallerIdle
    /\ HolderIdle

\* ------------------------------------------------------ building a scenario
AddUserInput ==
    /\ pc = "idle"
    /\ Len(scenario.turns) < MaxTurns
    /\ \E u \in UserInputs :
          scenario' = add_user_input(scenario, u.content, u.expected_patterns)
    /\ fresh' = FALSE
    /\ results' = <<>>
    /\ UNCHANGED <<pc, runVars, obj, matchVars, holderVars, callerVars>>

AddStateCheck ==
    /\ pc = "idle"
    /\ Len(scenario.turns) < MaxTurns
    /\ \E c \in StateChecks :
          scenario' = add_state_check(scenario, c.description, c.expected_patterns)
    /\ fresh' = FALSE
    /\ results' = <<>>
    /\ UNCHANGED <<pc, runVars, obj, matchVars, holderVars, callerVars>>

AddValidator ==
    /\ pc = "idle"
    /\ Len(scenario.validators) < MaxValidators
    /\ \E validator \in Validators :
          scenario' = add_validator(scenario, validator)
    /\ fresh' = FALSE
    /\ results' = <<>>
    /\ UNCHANGED <<pc, runVars, obj, matchVars, holderVars, callerVars>>

\* ------------------------------------------------------------ run_scenario
\* a start that stamps the scenario name only
StartHistoryNoModel(s) ==
    LET h0 == SetMeta(NewHistory, "scenario_name", s.config.name)
        system_msg == get_system_message(s)
    IN  IF system_msg # None
        THEN add_message(h0, system_msg[1].role, system_msg[1].content)
        ELSE h0

\* The history after the metadata stamps and the optional system message.
StartHistory(s) ==
    LET h0 == SetMeta(SetMeta(NewHistory, "scenario_name", s.config.name),
                      "model_name", ModelName)
        system_msg == get_system_message(s)
    IN  IF system_msg # None
        THEN add_message(h0, system_msg[1].role, system_msg[1].content)
        ELSE h0

RunScenarioStart ==
    /\ pc = "idle"
    /\ pc' = "run_scenario"
    /\ fresh' = TRUE
    /\ history' = StartHistory(scenario)
    /\ i' = 1
    /\ calls' = <<>>
    /\ run_outcome' = "none"
    /\ returned' = None
    /\ results' = <<>>
    /\ UNCHANGED <<scenario, obj, matchVars, holderVars, callerVars>>

\* The arguments _execute_user_turn hands to generate.
GenerateCall(h, s) ==
    [messages |-> get_messages(h),
     temperature |-> s.config.temperature,
     max_tokens |-> s.config.max_tokens]

\* _execute_user_turn up to the generate call: the user message is appended.
WithUserMessage(h, turn) == add_message(h, "user", turn.content)

\* A USER_INPUT turn whose generate call returns a response.
RunUserTurn ==
    /\ pc = "run_scenario"
    /\ i <= Len(scenario.turns)
    /\ scenario.turns[i].turn_type = USER_INPUT
    /\ \E content \in ResponseContents :
          LET h1 == WithUserMessage(history, scenario.turns[i])
              response == LLMResponse(content, ModelName)
          IN  /\ calls' = Append(calls, [args |-> GenerateCall(h1, scenario),
                                          turn |-> i, raised |-> FALSE,
                                          response |-> Some(response)])
              /\ history' = add_response(h1, response)
    /\ i' = i + 1
    /\ UNCHANGED <<scenario, pc, fresh, run_outcome, returned, results, obj, matchVars, holderVars, callerVars>>

\* run_scenario catching the exception and returning what it has so far
OnGenerateRaisePartial ==
    [pc |-> "idle", run_outcome |-> "raised", returned |-> Some(history)]

\* What run_scenario does with an exception of generate: nothing catches it,
\* the call ends and the caller gets no transcript.
OnGenerateRaise == [pc |-> "idle", run_outcome |-> "raised", returned |-> None]

\* A USER_INPUT turn whose generate call raises.
RunUserTurnRaise ==
    /\ pc = "run_scenario"
    /\ i <= Len(scenario.turns)
    /\ scenario.turns[i].turn_type = USER_INPUT
    /\ LET h1 == WithUserMessage(history, scenario.turns[i])
       IN  /\ calls' = Append(calls, [args |-> GenerateCall(h1, scenario),
                                       turn |-> i, raised |-> TRUE,
                                       response |-> None])
           /\ history' = h1
    /\ pc' = OnGenerateRaise.pc
    /\ run_outcome' = OnGenerateRaise.run_outcome
    /\ returned' = OnGenerateRaise.returned
    /\ UNCHANGED <<scenario, fresh, i, results, obj, matchVars, holderVars, callerVars>>

\* a loop without the turn-type test: every turn is sent to the model
RunOtherTurnGenerates ==
    /\ pc = "run_scenario"
    /\ i <= Len(scenario.turns)
    /\ scenario.turns[i].turn_type # USER_INPUT
    /\ \E content \in ResponseContents :
          LET h1 == WithUserMessage(history, scenario.turns[i])
              response == LLMResponse(content, ModelName)
          IN  /\ calls' = Append(calls, [args |-> GenerateCall(h1, scenario),
                                          turn |-> i, raised |-> FALSE,
                                          response |-> Some(response)])
              /\ history' = add_response(h1, response)
    /\ i' = i + 1
    /\ UNCHANGED <<scenario, pc, fresh, run_outcome, returned, results, obj,
                   matchVars, holderVars, callerVars>>

\* Any other turn (STATE_CHECK): nothing is generated, nothing is appended.
RunOtherTurn ==
    /\ pc = "run_scenario"
    /\ i <= Len(scenario.turns)
    /\ scenario.turns[i].turn_type # USER_INPUT
    /\ i' = i + 1
    /\ UNCHANGED <<scenario, pc, fresh, history, calls, run_outcome, returned, results, obj, matchVars, holderVars, callerVars>>

\* return history
RunScenarioReturn ==
    /\ pc = "run_scenario"
    /\ i > Len(scenario.turns)
    /\ pc' = "idle"
    /\ run_outcome' = "returned"
    /\ returned' = Some(history)
    /\ UNCHANGED <<scenario, fresh, history, i, calls, results, obj, matchVars, holderVars, callerVars>>


\* ---------------------------------------------------------------- evaluate
\* EvaluationMetric
EvaluationMetric(name, value, passed, details) ==
    [name |-> name, value |-> value, passed |-> passed, details |-> details]

\* metrics: List = [] in place of field(default_factory=list): every result
\* shares one list, which holds what earlier evaluations put there
EvaluationResultSharedList(scenario_name, model_name) ==
    [scenario_name |-> scenario_name, model_name |-> model_name,
     metrics |-> IF results = <<>> THEN <<>>
                 ELSE results[Len(results)].result.metrics,
     overall_passed |-> FALSE]

\* EvaluationResult(scenario_name=..., model_name=...): the dataclass defaults
EvaluationResult(scenario_name, model_name) ==
    [scenario_name |-> scenario_name, model_name |-> model_name,
     metrics |-> <<>>, overall_passed |-> FALSE]

\* EvaluationResult.add_metric
add_metric(res, metric) == [res EXCEPT !.metrics = Append(@, metric)]

\* EvaluationResult.get_metric: the first metric with that name, or None
get_metric(res, name) ==
    LET hits == {k \in 1..Len(res.metrics) : res.metrics[k].name = name}
    IN  IF hits = {} THEN None
        ELSE Some(res.metrics[CHOOSE k \in hits : \A j \in hits : k <= j])

\* EvaluationResult.calculate_pass_rate
calculate_pass_rate(res) ==
    IF res.metrics = <<>> THEN Float0
    ELSE Ratio(Cardinality({k \in 1..Len(res.metrics) : Truthy(res.metrics[k].passed)}),
               Len(res.metrics))

\* any() in place of all()
any_passed(metrics) == \E k \in 1..Len(metrics) : Truthy(metrics[k].passed)

\* all(m.passed for m in result.metrics)
all_passed(metrics) == \A k \in 1..Len(metrics) : Truthy(metrics[k].passed)

\* turn.content[:100]
TurnContentLimit == 100
Prefix(text, n) == SubSeq(text, 1, IF Len(text) < n THEN Len(text) ELSE n)

matched_patterns(turn, text) ==
    SelectSeq(turn.expected_patterns, LAMBDA p : _pattern_matches(p, text).value)
missing_patterns(turn, text) ==
    SelectSeq(turn.expected_patterns, LAMBDA p : ~_pattern_matches(p, text).value)

\* f"pattern_match_turn_{response_idx}"
PatternMetricName(idx) == <<"pattern_match_turn", idx>>
\* f"custom_validator_{i}"
ValidatorMetricName(idx) == <<"custom_validator", idx>>

\* The metric of a pattern-bearing turn reached with the cursor exhausted.
MissingResponseMetric(idx) ==
    EvaluationMetric(PatternMetricName(idx), Float0, PyFalse,
                     [error |-> "No response for this turn"])

\* passed = len(matched) > 0 in place of len(missing) == 0
ScoredMetricAnyMatched(turn, response, idx) ==
    LET matched == matched_patterns(turn, response.content)
        missing == missing_patterns(turn, response.content)
    IN  EvaluationMetric(PatternMetricName(idx),
            IF turn.expected_patterns # <<>>
            THEN Ratio(Len(matched), Len(turn.expected_patterns))
            ELSE Float1,
            PyBool(Len(matched) > 0),
            [matched |-> matched, missing |-> missing,
             turn_content |-> Prefix(turn.content, TurnContentLimit)])

\* The metric of a pattern-bearing turn scored against a response.
ScoredMetric(turn, response, idx) ==
    LET matched == matched_patterns(turn, response.content)
        missing == missing_patterns(turn, response.content)
    IN  EvaluationMetric(PatternMetricName(idx),
            IF turn.expected_patterns # <<>>
            THEN Ratio(Len(matched), Len(turn.expected_patterns))
            ELSE Float1,
            PyBool(Len(missing) = 0),
            [matched |-> matched, missing |-> missing,
             turn_content |-> Prefix(turn.content, TurnContentLimit)])

\* response_idx = 0
InitialCursor == 0

\* a cursor that is never advanced
AdvanceCursorStuck(idx) == idx

\* response_idx += 1
AdvanceCursor(idx) == idx + 1

\* The state of the loop of _evaluate_patterns: the result being filled, the
\* cursor, and for every turn handled so far what was done with it
\* (the cursor it met, the response it was scored against, the metrics it added).
PatternLoopStart(res) ==
    [result |-> res, response_idx |-> InitialCursor, log |-> <<>>,
     propagated |-> FALSE]

\* A turn without expected patterns: continue
SkipTurn(st, k) ==
    [st EXCEPT !.log = Append(@, [turn |-> k, cursor |-> st.response_idx,
                                  response |-> None, metrics |-> 0])]

\* an exhausted turn that consumes a cursor position all the same
ExhaustedTurnAdvancing(st, k) ==
    [st EXCEPT !.result = add_metric(@, MissingResponseMetric(st.response_idx)),
               !.response_idx = @ + 1,
               !.log = Append(@, [turn |-> k, cursor |-> st.response_idx,
                                  response |-> None, metrics |-> 1])]

\* an exhausted turn that is skipped without a metric
ExhaustedTurnSilent(st, k) ==
    [st EXCEPT !.log = Append(@, [turn |-> k, cursor |-> st.response_idx,
                                  response |-> None, metrics |-> 0])]

\* A pattern-bearing turn with response_idx >= len(history.responses)
ExhaustedTurn(st, k) ==
    [st EXCEPT !.result = add_metric(@, MissingResponseMetric(st.response_idx)),
               !.log = Append(@, [turn |-> k, cursor |-> st.response_idx,
                                  response |-> None, metrics |-> 1])]

\* A pattern-bearing turn scored against history.responses[response_idx]
ScoredTurn(st, k, turn, h) ==
    [st EXCEPT !.result = add_metric(@,
                   ScoredMetric(turn, h.responses[st.response_idx + 1], st.response_idx)),
               !.response_idx = AdvanceCursor(@),
               !.log = Append(@, [turn |-> k, cursor |-> st.response_idx,
                                  response |-> Some(st.response_idx), metrics |-> 1])]

\* A pattern-bearing turn one of whose patterns makes _pattern_matches raise:
\* the exception leaves the loop before a metric is added.
\* (whether the call raises is decided when the pattern is compiled).
PatternRaises(turn, text) ==
    \E n \in 1..Len(turn.expected_patterns) :
        re_compile(turn.expected_patterns[n]) = "OverflowError"
RaisingTurn(st, k) ==
    [st EXCEPT !.propagated = TRUE,
               !.log = Append(@, [turn |-> k, cursor |-> st.response_idx,
                                  response |-> Some(st.response_idx), metrics |-> 0])]

\* One iteration of the loop of _evaluate_patterns, for turn number k.
PatternStep(st, k, turn, h) ==
    IF turn.expected_patterns = <<>> THEN SkipTurn(st, k)
    ELSE IF st.response_idx >= Len(h.responses) THEN ExhaustedTurn(st, k)
    ELSE IF PatternRaises(turn, h.responses[st.response_idx + 1].content)
         THEN RaisingTurn(st, k)
    ELSE ScoredTurn(st, k, turn, h)

RECURSIVE PatternLoop(_, _, _, _)
PatternLoop(st, k, s, h) ==
    IF k > Len(s.turns) \/ st.propagated THEN st
    ELSE PatternLoop(PatternStep(st, k, s.turns[k], h), k + 1, s, h)

\* Evaluator._evaluate_patterns: the loop state after the last turn.
_evaluate_patterns(h, s, res) == PatternLoop(PatternLoopStart(res), 1, s, h)

\* The state of the loop of _run_custom_validators: the result being filled,
\* the validators invoked so far (enumerate's i), and whether an exception
\* left the loop.
ValidatorLoopStart(res) == [result |-> res, invoked |-> <<>>, propagated |-> FALSE]

\* try: the validator returned
OnValidatorReturn(st, validator, idx) ==
    [st EXCEPT !.result = add_metric(@,
                   EvaluationMetric(ValidatorMetricName(idx),
                       IF Truthy(validator.ret) THEN Float1 ELSE Float0,
                       validator.ret,
                       [validator_function |-> validator.name])),
               !.invoked = Append(@, idx)]

\* no except clause: the exception of the validator leaves the loop
OnValidatorRaisePropagates(st, validator, idx) ==
    [st EXCEPT !.invoked = Append(@, idx), !.propagated = TRUE]

\* except Exception as e: the validator raised
OnValidatorRaise(st, validator, idx) ==
    [st EXCEPT !.result = add_metric(@,
                   EvaluationMetric(ValidatorMetricName(idx), Float0, PyFalse,
                       [error |-> validator.error])),
               !.invoked = Append(@, idx)]

ValidatorStep(st, validator, idx) ==
    IF validator.raises THEN OnValidatorRaise(st, validator, idx)
    ELSE OnValidatorReturn(st, validator, idx)

RECURSIVE ValidatorLoop(_, _, _)
ValidatorLoop(st, k, s) ==
    IF k > Len(s.validators) \/ st.propagated THEN st
    ELSE ValidatorLoop(ValidatorStep(st, s.validators[k], k - 1), k + 1, s)

\* Evaluator._run_custom_validators: the loop state after the last validator.
_run_custom_validators(h, s, res) == ValidatorLoop(ValidatorLoopStart(res), 1, s)

\* overall_passed left at the dataclass default
WithOverallDefault(res) == res

\* result.overall_passed = all(m.passed for m in result.metrics)
WithOverall(res) == [res EXCEPT !.overall_passed = all_passed(res.metrics)]

\* Evaluator.evaluate: what the call does, from its inputs.
\*   raised: an exception left evaluate; result: the EvaluationResult returned;
\*   patterns, validators: what the two passes did; history, scenario: the
\*   inputs as the call leaves them.
evaluate(h, s) ==
    LET res0 == EvaluationResult(s.config.name,
                                 MetaGet(h.metadata, "model_name", "unknown"))
        p == _evaluate_patterns(h, s, res0)
        c == IF p.propagated
             THEN [ValidatorLoopStart(p.result) EXCEPT !.propagated = TRUE]
             ELSE _run_custom_validators(h, s, p.result)
    IN  [raised |-> c.propagated,
         result |-> WithOverall(c.result),
         patterns |-> p.log,
         cursor |-> p.response_idx,
         validators |-> c.invoked,
         history |-> h,
         scenario |-> s]

\* Evaluator.register_validator: self.custom_validators[name] = validator
register_validator(self, name, validator) ==
    [self EXCEPT !.custom_validators =
        [k \in (DOMAIN @) \cup {name} |-> IF k = name THEN validator ELSE @[k]]]

\* Names a caller registers validators under, in a fixed order.
RegisteredNames == <<"test", "other">>

\* The validators of the mapping self.custom_validators, in the order of
\* RegisteredNames.
RegisteredSeq(self) ==
    LET present == SelectSeq(RegisteredNames,
                             LAMBDA n : n \in DOMAIN self.custom_validators)
    IN  [k \in 1..Len(present) |-> self.custom_validators[present[k]]]

\* an evaluate that also runs the registered validators after the scenario's
Evaluator_evaluate_registered(self, h, s) ==
    [evaluator |-> self,
     outcome |-> [evaluate(h, [s EXCEPT !.validators = @ \o RegisteredSeq(self)])
                    EXCEPT !.scenario = s]]

\* Evaluator.evaluate as a method of the evaluator self: the evaluator after
\* the call, and what the call did.  Neither evaluate nor the two passes
\* read or write self.custom_validators.
Evaluator_evaluate(self, h, s) == [evaluator |-> self, outcome |-> evaluate(h, s)]

Evaluate ==
    /\ pc = "idle"
    /\ returned # None
    /\ Len(results) < MaxEvals
    /\ \E e \in {evaluate(returned[1], scenario)} :
           /\ results' = Append(results,
                  [raised |-> e.raised, result |-> e.result, patterns |-> e.patterns,
                   cursor |-> e.cursor, validators |-> e.validators,
                   inputs_kept |-> (e.history = returned[1] /\ e.scenario = scenario)])
           /\ returned' = Some(e.history)
           /\ scenario' = e.scenario
    /\ UNCHANGED <<pc, fresh, history, i, calls, run_outcome, obj, matchVars, holderVars, callerVars>>

Next ==
    \/ AddUserInput
    \/ AddStateCheck
    \/ AddValidator
    \/ RunScenarioStart
    \/ RunUserTurn
    \/ RunUserTurnRaise
    \/ RunOtherTurn
    \/ RunScenarioReturn
    \/ Evaluate

Spec == Init /\ [][Next]_vars

\* Building and running alone: no validator is registered and evaluate is
\* not called (run_scenario reads neither the validators nor a result).
NextRun ==
    \/ AddUserInput
    \/ AddStateCheck
    \/ RunScenarioStart
    \/ RunUserTurn
    \/ RunUserTurnRaise
    \/ RunOtherTurn
    \/ RunScenarioReturn

SpecRun == Init /\ [][NextRun]_vars

\* The usual order of use: the scenario is built, then run, then evaluated,
\* and nothing is added to it once it has been run.
NotRunYet == run_outcome = "none"
NextInOrder ==
    \/ NotRunYet /\ AddUserInput
    \/ NotRunYet /\ AddStateCheck
    \/ NotRunYet /\ AddValidator
    \/ RunScenarioStart
    \/ RunUserTurn
    \/ RunUserTurnRaise
    \/ RunOtherTurn
    \/ RunScenarioReturn
    \/ Evaluate

SpecInOrder == Init /\ [][NextInOrder]_vars


\* ------------------------------------------- a result built by the caller
\* EvaluationMetric objects a caller adds by hand.
SampleMetrics ==
    {EvaluationMetric(<<"m", 1>>, Float1, PyTrue, <<>>),
     EvaluationMetric(<<"m", 2>>, Ratio(1, 2), PyFalse, <<>>),
     EvaluationMetric(<<"m", 3>>, Float0, PyFalse, <<>>)}

PipelineUntouched ==
    /\ pc = "idle"
    /\ scenario.turns = <<>>
    /\ scenario.validators = <<>>
    /\ run_outcome = "none"
    /\ results = <<>>

\* EvaluationResult(scenario_name="test", model_name="test")
ConstructResult ==
    /\ PipelineUntouched
    /\ obj = None
    /\ obj' = Some(EvaluationResult("test", "test"))
    /\ UNCHANGED <<scenario, pc, fresh, runVars, results, matchVars, holderVars, callerVars>>

\* EvaluationResult(scenario_name="test", model_name="test", overall_passed=True)
ConstructResultPassed ==
    /\ PipelineUntouched
    /\ obj = None
    /\ obj' = Some([EvaluationResult("test", "test") EXCEPT !.overall_passed = TRUE])
    /\ UNCHANGED <<scenario, pc, fresh, runVars, results, matchVars, holderVars, callerVars>>

\* result.add_metric(metric)
ResultAddMetric ==
    /\ PipelineUntouched
    /\ obj # None
    /\ Len(obj[1].metrics) < MaxMetrics
    /\ \E metric \in SampleMetrics : obj' = Some(add_metric(obj[1], metric))
    /\ UNCHANGED <<scenario, pc, fresh, runVars, results, matchVars, holderVars, callerVars>>

\* The pipeline, or a caller who only builds EvaluationResult objects by hand.
NextResult ==
    \/ obj = None /\ Next
    \/ ConstructResult
    \/ ConstructResultPassed
    \/ ResultAddMetric

SpecResult == Init /\ [][NextResult]_vars


\* ------------------------------------------ a direct _pattern_matches call
\* All sequences over S of a length from lo to hi.
SeqsOf(S, lo, hi) == UNION {[1..n -> S] : n \in lo..hi}

\* What patterns and texts are made of.  A text holds single characters only.
PatternChars == {"a", "B", ".", "$", "[", BigRepeat}
TextChars == {"A", "b", "$", "["}
Patterns == SeqsOf(PatternChars, 0, MaxPatternLen)
Texts == SeqsOf(TextChars, 0, MaxTextLen)

\* ScenarioConfig(name="test"): every other field at its default
TestConfig == ScenarioConfig("test", None, DefaultTemperature, None)

InitPattern ==
    /\ scenario = NewScenario(TestConfig)
    /\ PipelineIdle
    /\ arg_pattern \in Patterns
    /\ arg_text \in Texts
    /\ match_out = None
    /\ CallerIdle
    /\ HolderIdle

\* evaluator._pattern_matches(pattern, text)
PatternMatches ==
    /\ match_out = None
    /\ match_out' = Some(_pattern_matches(arg_pattern, arg_text))
    /\ UNCHANGED <<scenario, pc, fresh, runVars, results, obj, arg_pattern,
                   arg_text, callerVars, holderVars>>

NextPattern == PatternMatches

SpecPattern == InitPattern /\ [][NextPattern]_vars


\* ------------------------------------- a transcript the caller works on
\* What the caller passes: add_message takes any role string.
MessageRoles == {"system", "user", "tool"}
MessageContents == {<<"h", "i">>}
HandResponses == {LLMResponse(<<"o", "k">>, "gpt-4")}
ContinueInputs ==
    {[user_input |-> <<"b", "u", "y">>, temperature |-> DefaultTemperature,
      max_tokens |-> None],
     [user_input |-> <<>>, temperature |-> 2, max_tokens |-> Some(50)]}
\* MockLLM() and MockLLM(responses=["ab"])
ManagerScripts == {None, Some(<<<<"a", "b">>>>)}

InitTranscript ==
    /\ scenario = NewScenario(TestConfig)
    /\ PipelineIdle
    /\ NoMatchCall
    /\ llm \in {MockLLM(r) : r \in ManagerScripts}
    /\ transcript = NewHistory
    /\ ops = <<>>
    /\ out = None
    /\ HolderIdle

\* history.add_message(role, content)
TranscriptAddMessage ==
    /\ Len(transcript.messages) < MaxMessages
    /\ \E role \in MessageRoles, content \in MessageContents :
          /\ transcript' = add_message(transcript, role, content)
          /\ ops' = Append(ops, [op |-> "add_message", role |-> role,
                                 content |-> content])
    /\ UNCHANGED <<scenario, pc, fresh, runVars, results, obj, matchVars, holderVars, llm, out>>

\* history.add_response(response)
TranscriptAddResponse ==
    /\ Len(transcript.messages) < MaxMessages
    /\ \E response \in HandResponses :
          /\ transcript' = add_response(transcript, response)
          /\ ops' = Append(ops, [op |-> "add_response", response |-> response])
    /\ UNCHANGED <<scenario, pc, fresh, runVars, results, obj, matchVars, holderVars, llm, out>>

\* manager.continue_conversation(history, user_input, temperature, max_tokens)
\* The calls it makes on the transcript are logged like the caller's own.
ContinueConversation ==
    /\ Len(transcript.messages) + 2 <= MaxMessages
    /\ \E in \in ContinueInputs :
        \E c \in {continue_conversation(llm, transcript, in.user_input,
                                        in.temperature, in.max_tokens)} :
          /\ transcript' = c.history
          /\ llm' = c.llm
          /\ ops' = ops \o <<[op |-> "add_message", role |-> "user",
                               content |-> in.user_input]>>
                        \o (IF Len(c.history.responses) > Len(transcript.responses)
                            THEN <<[op |-> "add_response",
                                    response |-> c.history.responses[Len(c.history.responses)]]>>
                            ELSE <<>>)
          /\ out' = Some([op |-> "continue_conversation", input |-> in,
                          before |-> transcript, after |-> c.history,
                          args |-> c.args, raised |-> c.raised,
                          response |-> c.response])
    /\ UNCHANGED <<scenario, pc, fresh, runVars, results, obj, matchVars, holderVars>>

NextTranscript ==
    \/ TranscriptAddMessage
    \/ TranscriptAddResponse
    \/ ContinueConversation

SpecTranscript == InitTranscript /\ [][NextTranscript]_vars


\* ------------------------------------------- a scenario built call by call
\* A ConversationTurn the caller makes and hands to add_turn.
HandTurns == {ConversationTurn(USER_INPUT, <<"h", "i">>, <<PatA>>)}
\* The validators the caller of this part registers.
BuildValidators == {v \in Validators : v.name \in {"always_pass", "boom"}}

\* The scenario is still being built: run_scenario has not been called.
Building == pc = "idle" /\ run_outcome = "none"

\* scenario.add_turn(turn)
BuildAddTurn ==
    /\ Building
    /\ Len(scenario.turns) < MaxTurns
    /\ \E turn \in HandTurns :
          /\ scenario' = add_turn(scenario, turn)
          /\ ops' = Append(ops, [op |-> "add_turn", turn |-> turn,
                                 returned |-> add_turn(scenario, turn)])
    /\ fresh' = FALSE
    /\ results' = <<>>
    /\ UNCHANGED <<pc, runVars, obj, matchVars, holderVars, llm, transcript, out>>

\* scenario.add_user_input(content, expected_patterns)
BuildAddUserInput ==
    /\ Building
    /\ Len(scenario.turns) < MaxTurns
    /\ \E u \in UserInputs :
          /\ scenario' = add_user_input(scenario, u.content, u.expected_patterns)
          /\ ops' = Append(ops,
                 [op |-> "add_user_input", content |-> u.content,
                  expected_patterns |-> u.expected_patterns,
                  returned |-> add_user_input(scenario, u.content, u.expected_patterns)])
    /\ fresh' = FALSE
    /\ results' = <<>>
    /\ UNCHANGED <<pc, runVars, obj, matchVars, holderVars, llm, transcript, out>>

\* scenario.add_state_check(description, expected_patterns)
BuildAddStateCheck ==
    /\ Building
    /\ Len(scenario.turns) < MaxTurns
    /\ \E c \in StateChecks :
          /\ scenario' = add_state_check(scenario, c.description, c.expected_patterns)
          /\ ops' = Append(ops,
                 [op |-> "add_state_check", description |-> c.description,
                  expected_patterns |-> c.expected_patterns,
                  returned |-> add_state_check(scenario, c.description,
                                               c.expected_patterns)])
    /\ fresh' = FALSE
    /\ results' = <<>>
    /\ UNCHANGED <<pc, runVars, obj, matchVars, holderVars, llm, transcript, out>>

\* scenario.add_validator(validator)
BuildAddValidator ==
    /\ Building
    /\ Len(scenario.validators) < MaxValidators
    /\ \E validator \in BuildValidators :
          /\ scenario' = add_validator(scenario, validator)
          /\ ops' = Append(ops, [op |-> "add_validator", validator |-> validator,
                                 returned |-> add_validator(scenario, validator)])
    /\ fresh' = FALSE
    /\ results' = <<>>
    /\ UNCHANGED <<pc, runVars, obj, matchVars, holderVars, llm, transcript, out>>

\* scenario.add_user_input(content).add_validator(validator): the second
\* call is made on what the first returned.
BuildChained ==
    /\ Building
    /\ Len(scenario.turns) < MaxTurns
    /\ Len(scenario.validators) < MaxValidators
    /\ \E u \in UserInputs, validator \in BuildValidators :
          LET first == add_user_input(scenario, u.content, u.expected_patterns)
              second == add_validator(first, validator)
          IN  /\ scenario' = second
              /\ ops' = ops \o
                    <<[op |-> "add_user_input", content |-> u.content,
                       expected_patterns |-> u.expected_patterns, returned |-> first],
                      [op |-> "add_validator", validator |-> validator,
                       returned |-> second]>>
    /\ fresh' = FALSE
    /\ results' = <<>>
    /\ UNCHANGED <<pc, runVars, obj, matchVars, holderVars, llm, transcript, out>>

NextBuilder ==
    \/ BuildAddTurn
    \/ BuildAddUserInput
    \/ BuildAddStateCheck
    \/ BuildAddValidator
    \/ BuildChained
    \/ RunScenarioStart
    \/ RunUserTurn
    \/ RunUserTurnRaise
    \/ RunOtherTurn
    \/ RunScenarioReturn

SpecBuilder == Init /\ [][NextBuilder]_vars


\* --------------------------------------------- the adapter called directly
\* MockLLM(), MockLLM(responses=[]), MockLLM(responses=["a b"]),
\* MockLLM(responses=["b ", ""])
AdapterScripts ==
    {None, Some(<<>>), Some(<<<<"a", " ", "b">>>>), Some(<<<<"b", " ">>, <<>>>>)}

\* Message lists a caller can hand over: well formed, with and without a
\* user message, and malformed in each way validate_messages tests for.
WellFormedLists ==
    {<<[role |-> "user", content |-> <<"h", "i">>]>>,
     <<[role |-> "system", content |-> <<>>],
       [role |-> "assistant", content |-> <<"o", "k">>]>>}
MalformedLists ==
    {<<>>,
     <<[role |-> "user"]>>,
     <<[content |-> <<"h", "i">>]>>,
     <<[role |-> "tool", content |-> <<"h", "i">>]>>,
     <<[role |-> "user", content |-> <<"h", "i">>], [role |-> "invalid"]>>}
MessageLists == WellFormedLists \cup MalformedLists
Samplings ==
    {[temperature |-> DefaultTemperature, max_tokens |-> None],
     [temperature |-> 2, max_tokens |-> Some(50)]}

InitAdapter ==
    /\ scenario = NewScenario(TestConfig)
    /\ PipelineIdle
    /\ NoMatchCall
    /\ llm \in {MockLLM(r) : r \in AdapterScripts}
    /\ transcript = NewHistory
    /\ ops = <<>>
    /\ out = None
    /\ HolderIdle

\* llm.generate(messages, temperature, max_tokens)
AdapterGenerate ==
    /\ llm.call_count < MaxCalls
    /\ \E messages \in MessageLists, sampling \in Samplings :
        \E g \in {generate(llm, messages, sampling.temperature, sampling.max_tokens)} :
          /\ llm' = g.llm
          /\ out' = Some([op |-> "generate", messages |-> messages,
                          sampling |-> sampling, before |-> llm, after |-> g.llm,
                          raised |-> g.raised, response |-> g.response,
                          chunks |-> <<>>])
          /\ ops' = IF g.raised THEN ops
                    ELSE Append(ops, [op |-> "generate", messages |-> messages,
                                      content |-> g.response[1].content])
    /\ UNCHANGED <<scenario, pc, fresh, runVars, results, obj, matchVars, holderVars,
                   transcript>>

\* list(llm.generate_stream(messages, temperature, max_tokens)): the
\* generator is run to its end
AdapterGenerateStream ==
    /\ llm.call_count < MaxCalls
    /\ \E messages \in MessageLists, sampling \in Samplings :
        \E g \in {generate_stream(llm, messages, sampling.temperature,
                                   sampling.max_tokens)} :
          /\ llm' = g.llm
          /\ out' = Some([op |-> "generate_stream", messages |-> messages,
                          sampling |-> sampling, before |-> llm, after |-> g.llm,
                          raised |-> g.raised, response |-> None,
                          chunks |-> g.chunks])
          /\ ops' = IF g.raised THEN ops
                    ELSE Append(ops, [op |-> "generate", messages |-> messages,
                                      content |->
                                          generate(llm, messages, sampling.temperature,
                                                   sampling.max_tokens).response[1].content])
    /\ UNCHANGED <<scenario, pc, fresh, runVars, results, obj, matchVars, holderVars,
                   transcript>>

\* llm.reset()
AdapterReset ==
    /\ llm' = reset(llm)
    /\ out' = Some([op |-> "reset", messages |-> <<>>,
                    sampling |-> [temperature |-> DefaultTemperature,
                                  max_tokens |-> None],
                    before |-> llm, after |-> reset(llm), raised |-> FALSE,
                    response |-> None, chunks |-> <<>>])
    /\ ops' = <<>>
    /\ UNCHANGED <<scenario, pc, fresh, runVars, results, obj, matchVars, holderVars,
                   transcript>>

NextAdapter ==
    \/ AdapterGenerate
    \/ AdapterGenerateStream
    \/ AdapterReset

SpecAdapter == InitAdapter /\ [][NextAdapter]_vars


\* ------------------------------------- names stamped on run and evaluation
\* ScenarioConfig(name="", description=...) and ScenarioConfig(name="test",
\* description=...): the dataclass takes any string as name.
ConfigNames == {"", "test"}
NamedConfigs == {ScenarioConfig(n, None, DefaultTemperature, None) : n \in ConfigNames}

\* Transcripts a caller builds without run_scenario: ConversationHistory(),
\* one with a response added, and one whose metadata names a model.
HandTranscripts ==
    {NewHistory,
     add_response(NewHistory, LLMResponse(<<"A", "$", "5">>, "gpt-4")),
     SetMeta(add_response(NewHistory, LLMResponse(<<"a", "b">>, "gpt-4")),
             "model_name", "gpt-4")}

InitNaming ==
    /\ scenario \in {NewScenario(c) : c \in NamedConfigs}
    /\ PipelineIdle
    /\ NoMatchCall
    /\ CallerIdle
    /\ HolderIdle

\* evaluator.evaluate(history, scenario) on a transcript built by hand
EvaluatorEvaluate ==
    /\ pc = "idle"
    /\ \E h \in HandTranscripts :
        \E e \in {Evaluator_evaluate(evaluator, h, scenario)} :
          /\ evaluator' = e.evaluator
          /\ out' = Some([op |-> "evaluate", history |-> h, scenario |-> scenario,
                          before |-> evaluator, after |-> e.evaluator,
                          raised |-> e.outcome.raised, result |-> e.outcome.result,
                          validators |-> e.outcome.validators])
    /\ UNCHANGED <<scenario, pc, fresh, runVars, results, obj, matchVars,
                   llm, transcript, ops, held>>

NextNaming ==
    \/ AddUserInput
    \/ AddStateCheck
    \/ RunScenarioStart
    \/ RunUserTurn
    \/ RunUserTurnRaise
    \/ RunOtherTurn
    \/ RunScenarioReturn
    \/ Evaluate
    \/ EvaluatorEvaluate

SpecNaming == InitNaming /\ [][NextNaming]_vars


\* ------------------------------- run_scenario against the scripted adapter
\* The loop of run_scenario from turn k on, with the adapter st.llm: a
\* USER_INPUT turn appends the user message, calls generate and appends the
\* response; an exception of generate ends the loop; other turns do nothing.
RECURSIVE RunTurns(_, _, _)
RunTurns(st, k, s) ==
    IF k > Len(s.turns) \/ st.raised THEN st
    ELSE IF s.turns[k].turn_type = USER_INPUT
    THEN LET h1 == WithUserMessage(st.history, s.turns[k])
             args == GenerateCall(h1, s)
             g == generate(st.llm, args.messages, args.temperature, args.max_tokens)
         IN  RunTurns(IF g.raised
                      THEN [raised |-> TRUE, history |-> h1, llm |-> g.llm]
                      ELSE [raised |-> FALSE,
                            history |-> add_response(h1, g.response[1]),
                            llm |-> g.llm],
                      k + 1, s)
    ELSE RunTurns(st, k + 1, s)

\* ConversationManager(self).run_scenario(s), as one call: whether the
\* exception of generate left it, the transcript it returned (None when it
\* raised), and the adapter after the call.
run_scenario(self, s) ==
    LET r == RunTurns([raised |-> FALSE, history |-> StartHistory(s), llm |-> self], 1, s)
    IN  [raised |-> r.raised,
         returned |-> IF r.raised THEN None ELSE Some(r.history),
         llm |-> r.llm]

\* MockLLM(), MockLLM(responses=["ab"]), MockLLM(responses=["A$5", "ab"])
ReplayScripts == {None, Some(<<<<"a", "b">>>>), Some(<<<<"A", "$", "5">>, <<"a", "b">>>>)}

InitReplay ==
    /\ scenario \in {NewScenario(c) : c \in Configs}
    /\ PipelineIdle
    /\ NoMatchCall
    /\ llm \in {MockLLM(r) : r \in ReplayScripts}
    /\ transcript = NewHistory
    /\ ops = <<>>
    /\ out = None
    /\ HolderIdle

\* The scenario is complete once the manager has been used.
ReplayAddUserInput == ops = <<>> /\ AddUserInput
ReplayAddStateCheck == ops = <<>> /\ AddStateCheck

\* manager.run_scenario(scenario), the manager holding the adapter llm
ReplayRun ==
    /\ Len(ops) < MaxOps
    /\ \E r \in {run_scenario(llm, scenario)} :
          /\ llm' = r.llm
          /\ ops' = Append(ops, [op |-> "run_scenario", before |-> llm,
                                 raised |-> r.raised, returned |-> r.returned])
    /\ UNCHANGED <<scenario, pc, fresh, runVars, results, obj, matchVars, holderVars,
                   transcript, out>>

\* llm.reset() between two runs
ReplayReset ==
    /\ Len(ops) < MaxOps
    /\ llm' = reset(llm)
    /\ ops' = Append(ops, [op |-> "reset", before |-> llm, after |-> reset(llm)])
    /\ UNCHANGED <<scenario, pc, fresh, runVars, results, obj, matchVars, holderVars,
                   transcript, out>>

NextReplay ==
    \/ ReplayAddUserInput
    \/ ReplayAddStateCheck
    \/ ReplayRun
    \/ ReplayReset

SpecReplay == InitReplay /\ [][NextReplay]_vars


\* ------------------------------------ lists handed out by get_messages
\* What a holder of the list does to it: messages.append(...), messages.pop()
ListMutations == {"append", "pop"}
mutate(l, how) ==
    IF how = "append"
    THEN [l EXCEPT !.items = Append(@, [role |-> "user", content |-> <<"x">>])]
    ELSE IF l.items # <<>> THEN [l EXCEPT !.items = SubSeq(@, 1, Len(@) - 1)]
    ELSE l

InitCopy ==
    /\ scenario = NewScenario(TestConfig)
    /\ PipelineIdle
    /\ NoMatchCall
    /\ CallerIdle
    /\ HolderIdle

\* messages = history.get_messages()
CallerGetMessages ==
    /\ held' = Some(get_messages_object(transcript))
    /\ out' = Some([op |-> "get_messages", messages |-> transcript.messages,
                     returned |-> get_messages_object(transcript).items])
    /\ UNCHANGED <<scenario, pc, fresh, runVars, results, obj, matchVars,
                   llm, transcript, ops, evaluator>>

\* messages.append(...) or messages.pop() on the list the caller holds
CallerMutatesList ==
    /\ held # None
    /\ \E how \in ListMutations :
          /\ how = "append" => Len(held[1].items) < MaxMessages
          /\ how = "pop" => held[1].items # <<>>
          /\ held' = Some(mutate(held[1], how))
          /\ transcript' = Store(transcript, mutate(held[1], how))
          /\ out' = Some([op |-> how])
    /\ UNCHANGED <<scenario, pc, fresh, runVars, results, obj, matchVars,
                   llm, ops, evaluator>>

\* manager.continue_conversation(history, user_input) with an adapter whose
\* generate changes the list it is given before it answers
ContinueWithMutatingAdapter ==
    /\ Len(transcript.messages) + 2 <= MaxMessages
    /\ \E in \in ContinueInputs, how \in ListMutations, response \in HandResponses :
          LET h1 == add_message(transcript, "user", in.user_input)
              given == get_messages_object(h1)
              h2 == Store(h1, mutate(given, how))
          IN  /\ transcript' = add_response(h2, response)
              /\ ops' = ops \o <<[op |-> "add_message", role |-> "user",
                                   content |-> in.user_input],
                                  [op |-> "add_response", response |-> response]>>
              /\ out' = Some([op |-> "continue_conversation"])
    /\ UNCHANGED <<scenario, pc, fresh, runVars, results, obj, matchVars,
                   llm, holderVars>>

NextCopy ==
    \/ TranscriptAddMessage
    \/ TranscriptAddResponse
    \/ CallerGetMessages
    \/ CallerMutatesList
    \/ ContinueWithMutatingAdapter

SpecCopy == InitCopy /\ [][NextCopy]_vars


\* ------------------------------------------- the evaluator's own mapping
\* The validators a caller registers with the evaluator.
RegisteredValidators == {v \in Validators : v.name \in {"always_fail", "boom"}}

InitEvaluator ==
    /\ scenario = NewScenario(TestConfig)
    /\ PipelineIdle
    /\ NoMatchCall
    /\ CallerIdle
    /\ HolderIdle

\* The caller builds the scenario before it uses the evaluator.
EvaluatorAddUserInput == evaluator = NewEvaluator /\ out = None /\ AddUserInput
EvaluatorAddValidator == evaluator = NewEvaluator /\ out = None /\ AddValidator

\* evaluator.register_validator(name, validator)
RegisterValidator ==
    /\ pc = "idle"
    /\ \E k \in 1..Len(RegisteredNames), validator \in RegisteredValidators :
          /\ evaluator' = register_validator(evaluator, RegisteredNames[k], validator)
          /\ out' = Some([op |-> "register_validator", name |-> RegisteredNames[k],
                          validator |-> validator, before |-> evaluator,
                          after |-> register_validator(evaluator, RegisteredNames[k],
                                                       validator)])
    /\ UNCHANGED <<scenario, pc, fresh, runVars, results, obj, matchVars,
                   llm, transcript, ops, held>>

NextEvaluator ==
    \/ EvaluatorAddUserInput
    \/ EvaluatorAddValidator
    \/ RegisterValidator
    \/ EvaluatorEvaluate

SpecEvaluator == InitEvaluator /\ [][NextEvaluator]_vars


\* ----------------------------------------------------------------- claims
UserTurns(s) == SelectSeq(s.turns, LAMBDA turn : turn.turn_type = USER_INPUT)
RoleCount(h, role) ==
    Cardinality({k \in 1..Len(h.messages) : h.messages[k].role = role})
Roles == {"system", "user", "assistant"}

\* C1: the transcript run_scenario returns for a scenario with N UserInput
\* turns has exactly N responses, N assistant messages, N user messages, at
\* most one system message, and no other message.
C1_TranscriptLockstep ==
    (run_outcome = "returned" /\ fresh) =>
        LET h == returned[1]
            N == Len(UserTurns(scenario))
        IN  /\ Len(h.responses) = N
            /\ RoleCount(h, "assistant") = N
            /\ RoleCount(h, "user") = N
            /\ RoleCount(h, "system") <= 1
            /\ \A k \in 1..Len(h.messages) : h.messages[k].role \in Roles
            /\ Len(h.messages) = 2 * N + RoleCount(h, "system")

\* Two UserInput turns and a system prompt were run to the end.
C1_Witness ==
    /\ run_outcome = "returned"
    /\ fresh
    /\ Len(UserTurns(scenario)) = 2
    /\ Len(returned[1].responses) = 2
    /\ RoleCount(returned[1], "system") = 1

\* The messages the k-th generate call of the run must receive: the system
\* message if the config has a non-empty prompt, then user and assistant
\* messages of the earlier UserInput turns in turn, then the user message of
\* the k-th UserInput turn.
SystemPrefix ==
    IF scenario.config.system_prompt # None /\ scenario.config.system_prompt[1] # <<>>
    THEN <<[role |-> "system", content |-> scenario.config.system_prompt[1]]>>
    ELSE <<>>
ExpectedMessages(k) ==
    SystemPrefix \o
    [j \in 1..(2 * k - 1) |->
        IF j % 2 = 1
        THEN [role |-> "user", content |-> UserTurns(scenario)[(j + 1) \div 2].content]
        ELSE [role |-> "assistant", content |-> history.responses[j \div 2].content]]

\* C2: the k-th generate call of run_scenario receives the whole message
\* sequence accumulated so far, ending with the user message of the k-th
\* UserInput turn, and the scenario's temperature and max_tokens.
C2_FullContextReplay ==
    \A k \in 1..Len(calls) :
        /\ k <= Len(UserTurns(scenario))
        /\ calls[k].args.messages = ExpectedMessages(k)
        /\ calls[k].args.temperature = scenario.config.temperature
        /\ calls[k].args.max_tokens = scenario.config.max_tokens

\* The second generate call of a run with a system prompt has been made.
C2_Witness ==
    /\ Len(calls) = 2
    /\ SystemPrefix # <<>>
    /\ Len(calls[2].args.messages) = 4
    /\ scenario.config.temperature # DefaultTemperature

\* C4: when generate raises, run_scenario ends with that failure: generate
\* is not invoked again in that call (the failed call is the last one, and
\* no turn is handed to generate twice) and no transcript is returned.
C4_FailurePropagates ==
    /\ run_outcome = "raised" => (pc = "idle" /\ returned = None)
    /\ \A k \in 1..Len(calls) : calls[k].raised => k = Len(calls)
    /\ \A k \in 1..(Len(calls) - 1) : calls[k].turn < calls[k + 1].turn
    /\ run_outcome = "raised" <=> (calls # <<>> /\ calls[Len(calls)].raised)

\* generate raised on a UserInput turn that another UserInput turn follows.
C4_Witness ==
    /\ run_outcome = "raised"
    /\ fresh
    /\ calls[Len(calls)].turn < Len(scenario.turns)
    /\ scenario.turns[Len(scenario.turns)].turn_type = USER_INPUT


\* The turns with at least one expected pattern, by index, in scenario order.
PatternTurns(s) ==
    SelectSeq([k \in 1..Len(s.turns) |-> k],
              LAMBDA k : s.turns[k].expected_patterns # <<>>)
\* The cursor after turn k of the pattern pass of evaluation e.
CursorAfter(e, k) == IF k < Len(e.patterns) THEN e.patterns[k + 1].cursor ELSE e.cursor
Evaluations == {results[n] : n \in 1..Len(results)}

\* C3: the j-th pattern-bearing turn (from 0) is scored against response j
\* whenever the transcript has one; scored positions strictly increase, so
\* no response is scored twice; a turn without patterns adds no metric and
\* leaves the cursor where it was.
C3_PositionalAlignment ==
    \A e \in Evaluations :
        LET h == returned[1]
            PT == PatternTurns(scenario)
        IN  /\ Len(e.patterns) = Len(scenario.turns)
            /\ \A j \in 1..Len(PT) :
                  j - 1 < Len(h.responses) =>
                      /\ e.patterns[PT[j]].response = Some(j - 1)
                      /\ Len(e.result.metrics) >= j
                      /\ e.result.metrics[j].name = PatternMetricName(j - 1)
                      /\ "matched" \in DOMAIN e.result.metrics[j].details
                      /\ e.result.metrics[j].details.matched =
                            SelectSeq(scenario.turns[PT[j]].expected_patterns,
                                LAMBDA p : _pattern_matches(p, h.responses[j].content).value)
            /\ \A k1, k2 \in 1..Len(e.patterns) :
                  (k1 < k2 /\ e.patterns[k1].response # None
                           /\ e.patterns[k2].response # None) =>
                      e.patterns[k1].response[1] < e.patterns[k2].response[1]
            /\ \A k \in 1..Len(e.patterns) :
                  scenario.turns[k].expected_patterns = <<>> =>
                      /\ e.patterns[k].metrics = 0
                      /\ e.patterns[k].response = None
                      /\ CursorAfter(e, k) = e.patterns[k].cursor

\* Two pattern-bearing turns were scored against two different responses.
C3_Witness ==
    /\ results # <<>>
    /\ Len(PatternTurns(scenario)) = 2
    /\ Len(returned[1].responses) = 2
    /\ returned[1].responses[1].content # returned[1].responses[2].content
    /\ results[1].patterns[2].response = Some(1)

\* C5: a pattern-bearing turn met with the cursor at or past the number of
\* responses gets a metric with passed false, value 0.0 and an error detail;
\* the cursor stays, nothing is raised, and every later turn and every
\* validator is still handled.
C5_MissingResponse ==
    \A e \in Evaluations :
        LET h == returned[1]
            PT == PatternTurns(scenario)
        IN  /\ ~e.raised
            /\ Len(e.patterns) = Len(scenario.turns)
            /\ Len(e.validators) = Len(scenario.validators)
            /\ \A j \in 1..Len(PT) :
                  e.patterns[PT[j]].cursor >= Len(h.responses) =>
                      /\ e.patterns[PT[j]].metrics = 1
                      /\ Len(e.result.metrics) >= j
                      /\ e.result.metrics[j].passed = PyFalse
                      /\ e.result.metrics[j].value = Float0
                      /\ "error" \in DOMAIN e.result.metrics[j].details
                      /\ CursorAfter(e, PT[j]) = e.patterns[PT[j]].cursor

\* A pattern-bearing turn found no response, and a pattern-bearing turn and
\* a validator came after it.
C5_Witness ==
    /\ results # <<>>
    /\ Len(PatternTurns(scenario)) = 2
    /\ results[1].patterns[1].cursor >= Len(returned[1].responses)
    /\ Len(results[1].result.metrics) = 3
    /\ "error" \in DOMAIN results[1].result.metrics[1].details

C7_OverallPassed ==
    \A e \in Evaluations :
        /\ e.result.overall_passed =
              ~(\E k \in 1..Len(e.result.metrics) : ~Truthy(e.result.metrics[k].passed))
        /\ e.result.metrics = <<>> => e.result.overall_passed

\* A result with a passing and a failing metric.
C7_Witness ==
    /\ results # <<>>
    /\ \E a, b \in 1..Len(results[1].result.metrics) :
          /\ Truthy(results[1].result.metrics[a].passed)
          /\ ~Truthy(results[1].result.metrics[b].passed)
    /\ ~results[1].result.overall_passed

\* C9: the result has exactly P + V metrics: first the pattern-match metrics
\* of the P pattern-bearing turns in turn order, then the metrics of the V
\* validators in validator order.
C9_MetricCountOrder ==
    \A e \in Evaluations :
        LET PT == PatternTurns(scenario)
            P == Len(PT)
            V == Len(scenario.validators)
            ms == e.result.metrics
        IN  /\ Len(ms) = P + V
            /\ \A j \in 1..P :
                  /\ ms[j].name[1] = "pattern_match_turn"
                  /\ "turn_content" \in DOMAIN ms[j].details =>
                        /\ ms[j].details.turn_content = scenario.turns[PT[j]].content
                        /\ Len(ms[j].details.matched) + Len(ms[j].details.missing)
                              = Len(scenario.turns[PT[j]].expected_patterns)
            /\ \A k \in 1..V :
                  /\ ms[P + k].name = ValidatorMetricName(k - 1)
                  /\ "validator_function" \in DOMAIN ms[P + k].details =>
                        ms[P + k].details.validator_function = scenario.validators[k].name
                  /\ "error" \in DOMAIN ms[P + k].details =>
                        ms[P + k].details.error = scenario.validators[k].error

\* Pattern-bearing turns outnumber the responses and a validator raised.
C9_Witness ==
    /\ results # <<>>
    /\ Len(PatternTurns(scenario)) = 2
    /\ Len(returned[1].responses) = 1
    /\ Len(scenario.validators) = 2
    /\ scenario.validators[1].raises
    /\ Len(results[1].result.metrics) = 4

C8_VacuousPass ==
    /\ (obj # None /\ obj[1].metrics = <<>>) => calculate_pass_rate(obj[1]) = Float0
    /\ \A e \in Evaluations :
          e.result.metrics = <<>> =>
              /\ e.result.overall_passed = TRUE
              /\ calculate_pass_rate(e.result) = Float0

\* evaluate returned a result without metrics.
C8_Witness ==
    /\ results # <<>>
    /\ results[1].result.metrics = <<>>
    /\ returned[1].responses # <<>>

\* C8 as stated: every EvaluationResult with no metrics has overall_passed
\* true and pass rate 0.0.
C8_AnyEmptyResultPassed ==
    /\ (obj # None /\ obj[1].metrics = <<>>) =>
          (obj[1].overall_passed = TRUE /\ calculate_pass_rate(obj[1]) = Float0)
    /\ \A e \in Evaluations :
          e.result.metrics = <<>> =>
              (e.result.overall_passed = TRUE /\ calculate_pass_rate(e.result) = Float0)

\* The pattern read as a regular expression occurs in the text, letter case
\* ignored: some window of the text has one character per consuming token
\* of the pattern ("." stands for any character, a letter for itself), and
\* every "$" of the pattern sits where the text ends.
Consumed(pat, k) == Cardinality({j \in 1..(k - 1) : pat[j] # "$"})
FoundAsRegex(pat, txt) ==
    /\ \A k \in 1..Len(pat) : pat[k] \notin {"[", BigRepeat}
    /\ \E start \in 1..(Len(txt) + 1) :
          \A k \in 1..Len(pat) :
              IF pat[k] = "$"
              THEN start + Consumed(pat, k) = Len(txt) + 1
              ELSE /\ start + Consumed(pat, k) <= Len(txt)
                   /\ \/ pat[k] = "."
                      \/ Lower(pat[k]) = Lower(txt[start + Consumed(pat, k)])
\* The pattern occurs in the text as a plain substring, letter case ignored.
OccursPlainly(pat, txt) ==
    \E w \in 0..Len(txt) :
        /\ w + Len(pat) <= Len(txt)
        /\ [k \in 1..Len(pat) |-> Lower(txt[w + k])] = [k \in 1..Len(pat) |-> Lower(pat[k])]

\* C11: pattern_matches never fails with an error, and it is true exactly
\* when the pattern is a valid regular expression found in the text, letter
\* case ignored, or occurs in the text as a plain substring, letter case
\* ignored.
C11_PatternMatches ==
    match_out # None =>
        /\ ~match_out[1].raised
        /\ match_out[1].value = (FoundAsRegex(arg_pattern, arg_text) \/ OccursPlainly(arg_pattern, arg_text))

\* C11, what the code does keep: whenever the call returns, its value is
\* the one the claim states; a pattern with an unclosed character set
\* returns the substring test.
C11_PatternMatchesWhenReturning ==
    (match_out # None /\ ~match_out[1].raised) =>
        /\ match_out[1].value = (FoundAsRegex(arg_pattern, arg_text) \/ OccursPlainly(arg_pattern, arg_text))
        /\ (\E k \in 1..Len(arg_pattern) : arg_pattern[k] = "[") =>
              match_out[1].value = OccursPlainly(arg_pattern, arg_text)

\* The pattern matches the text, as the matching rule states it.
Matches(pat, txt) == FoundAsRegex(pat, txt) \/ OccursPlainly(pat, txt)

\* C12: the metric of a pattern-bearing turn scored against a response has
\* in matched the turn's patterns that match the response content and in
\* missing those that do not, both in declaration order, so that every
\* pattern occurrence is in exactly one list; value is the matched count over
\* the pattern count and lies in [0, 1]; passed is true exactly when missing
\* is empty, which is exactly when value is 1.0.
C12_ScoredMetric ==
    \A e \in Evaluations :
        LET PT == PatternTurns(scenario)
        IN  \A j \in 1..Len(PT) :
                e.patterns[PT[j]].response # None =>
                    LET turn == scenario.turns[PT[j]]
                        content == returned[1].responses[e.patterns[PT[j]].response[1] + 1].content
                        m == e.result.metrics[j]
                        total == Len(turn.expected_patterns)
                    IN  /\ DOMAIN m.details = {"matched", "missing", "turn_content"}
                        /\ m.details.matched =
                              SelectSeq(turn.expected_patterns, LAMBDA p : Matches(p, content))
                        /\ m.details.missing =
                              SelectSeq(turn.expected_patterns, LAMBDA p : ~Matches(p, content))
                        /\ Len(m.details.matched) + Len(m.details.missing) = total
                        /\ m.value[1] * total = Len(m.details.matched) * m.value[2]
                        /\ 0 <= m.value[1] /\ m.value[1] <= m.value[2]
                        /\ m.passed = PyBool(m.details.missing = <<>>)
                        /\ Truthy(m.passed) <=> m.value = Float1

\* A turn with two patterns was scored against a response that matches one
\* of them.
C12_Witness ==
    /\ results # <<>>
    /\ results[1].result.metrics # <<>>
    /\ "matched" \in DOMAIN results[1].result.metrics[1].details
    /\ Len(results[1].result.metrics[1].details.matched) = 1
    /\ Len(results[1].result.metrics[1].details.missing) = 1
    /\ results[1].result.metrics[1].value = Ratio(1, 2)

\* C13: a scenario of UserInput turns that all declare patterns, without
\* validators, run to the end with responses that each match every pattern
\* of their turn, evaluates to one pattern-match metric per turn, each with
\* every pattern in matched, nothing in missing, passed true and value 1.0,
\* and to overall_passed true.
AllMatchRun ==
    /\ run_outcome = "returned"
    /\ fresh
    /\ scenario.validators = <<>>
    /\ \A k \in 1..Len(scenario.turns) :
          /\ scenario.turns[k].turn_type = USER_INPUT
          /\ scenario.turns[k].expected_patterns # <<>>
          /\ k <= Len(returned[1].responses)
          /\ \A n \in 1..Len(scenario.turns[k].expected_patterns) :
                Matches(scenario.turns[k].expected_patterns[n],
                        returned[1].responses[k].content)
C13_EndToEndAllMatch ==
    AllMatchRun =>
        \A e \in Evaluations :
            /\ ~e.raised
            /\ Len(e.result.metrics) = Len(scenario.turns)
            /\ \A k \in 1..Len(e.result.metrics) :
                  LET m == e.result.metrics[k]
                  IN  /\ m.name = PatternMetricName(k - 1)
                      /\ "matched" \in DOMAIN m.details
                      /\ m.details.matched = scenario.turns[k].expected_patterns
                      /\ m.details.missing = <<>>
                      /\ m.passed = PyTrue
                      /\ m.value = Float1
            /\ e.result.overall_passed = TRUE

\* Two UserInput turns with two patterns each were run, every response
\* matched both patterns, and the transcript was evaluated.
C13_Witness ==
    /\ AllMatchRun
    /\ results # <<>>
    /\ Len(scenario.turns) = 2
    /\ Len(results[1].result.metrics) = 2
    /\ Len(scenario.turns[2].expected_patterns) = 2

\* C14: the step of run_scenario that processes a StateCheck turn makes no
\* generate call and appends nothing: messages, responses and the number of
\* calls made on the adapter are the same before and after it.
C14_StateCheckNoEffect ==
    [][(/\ pc = "run_scenario"
        /\ i <= Len(scenario.turns)
        /\ scenario.turns[i].turn_type = STATE_CHECK
        /\ i' = i + 1)
       => /\ history'.messages = history.messages
          /\ history'.responses = history.responses
          /\ Len(calls') = Len(calls)
          /\ pc' = "run_scenario"]_vars

\* A StateCheck turn that follows a UserInput turn has been processed.
C14_Witness ==
    /\ pc = "run_scenario"
    /\ i = 3
    /\ scenario.turns[1].turn_type = USER_INPUT
    /\ scenario.turns[2].turn_type = STATE_CHECK
    /\ Len(calls) = 1
    /\ Len(history.responses) = 1

\* The add_message and add_response calls made on the transcript so far.
OpCount(name) == Cardinality({k \in 1..Len(ops) : ops[k].op = name})
ResponseOps == SelectSeq(ops, LAMBDA o : o.op = "add_response")
IsPrefix(a, b) == Len(a) <= Len(b) /\ SubSeq(b, 1, Len(a)) = a

\* What the calls made so far must have left in the transcript.
C15_Counts ==
    /\ Len(transcript.messages) = OpCount("add_message") + Len(transcript.responses)
    /\ Len(transcript.responses) = OpCount("add_response")
    /\ Len(transcript.messages) = Len(ops)
    /\ \A k \in 1..Len(ops) :
          Len(transcript.messages) >= k =>
            IF ops[k].op = "add_message"
            THEN transcript.messages[k] =
                     [role |-> ops[k].role, content |-> ops[k].content]
            ELSE transcript.messages[k] =
                     [role |-> "assistant", content |-> ops[k].response.content]
    /\ transcript.responses = [k \in 1..Len(ResponseOps) |-> ResponseOps[k].response]

\* C15: after any sequence of add_message and add_response calls, the
\* number of messages is the number of add_message calls plus the number
\* of responses, every add_response has added one response and one
\* assistant message with that response's content, and no step removes,
\* replaces or reorders an earlier message or response.
C15_LockstepAppendOnly ==
    /\ []C15_Counts
    /\ [][/\ IsPrefix(transcript.messages, transcript'.messages)
           /\ IsPrefix(transcript.responses, transcript'.responses)]_vars

\* Messages were added by hand, by add_response and by continue_conversation.
C15_Witness ==
    /\ Len(transcript.messages) = 4
    /\ Len(transcript.responses) = 2
    /\ ops[1].op = "add_message"
    /\ ops[2].op = "add_response"
    /\ out # None

\* C16: a continue_conversation call that succeeds on a transcript with m
\* messages and r responses hands generate the m messages followed by the
\* new user message, leaves the m messages unchanged and followed by the
\* user message and an assistant message with the response content, leaves
\* the r responses followed by one more, and returns that last response.
C16_ContinueConversation ==
    (out # None /\ out[1].op = "continue_conversation" /\ ~out[1].raised) =>
        LET before == out[1].before
            after == out[1].after
            m == Len(before.messages)
            r == Len(before.responses)
            user_message == [role |-> "user", content |-> out[1].input.user_input]
        IN  /\ out[1].response # None
            /\ out[1].args.messages = Append(before.messages, user_message)
            /\ out[1].args.temperature = out[1].input.temperature
            /\ out[1].args.max_tokens = out[1].input.max_tokens
            /\ Len(after.messages) = m + 2
            /\ after.messages =
                  before.messages \o
                  <<user_message,
                    [role |-> "assistant", content |-> out[1].response[1].content]>>
            /\ Len(after.responses) = r + 1
            /\ after.responses = Append(before.responses, out[1].response[1])

\* continue_conversation succeeded on a transcript that already held a
\* message added by hand and a response.
C16_Witness ==
    /\ out # None
    /\ out[1].op = "continue_conversation"
    /\ ~out[1].raised
    /\ Len(out[1].before.messages) = 2
    /\ Len(out[1].before.responses) = 1
    /\ transcript = out[1].after

\* The transcript and the generate calls of the latest run carry the prompt
\* as their first message, once, and nowhere else.
SystemFirst(prompt) ==
    LET system_message == [role |-> "system", content |-> prompt]
    IN  /\ history.messages # <<>>
        /\ history.messages[1] = system_message
        /\ \A k \in 2..Len(history.messages) : history.messages[k].role # "system"
        /\ \A n \in 1..Len(calls) :
              /\ calls[n].args.messages[1] = system_message
              /\ \A k \in 2..Len(calls[n].args.messages) :
                    calls[n].args.messages[k].role # "system"
        /\ returned # None => returned[1].messages[1] = system_message
\* The transcript and the generate calls of the latest run hold no system
\* message.
NoSystemMessage ==
    /\ \A k \in 1..Len(history.messages) : history.messages[k].role # "system"
    /\ \A n \in 1..Len(calls) :
          \A k \in 1..Len(calls[n].args.messages) :
              calls[n].args.messages[k].role # "system"
\* run_scenario has been called and has got past its set-up.
RunStarted == pc = "run_scenario" \/ run_outcome # "none"

\* C17 as amended: with a non-empty system prompt in the config, the
\* transcript of run_scenario starts with exactly one system message holding
\* that prompt, before any user message and in every generate call; with no
\* prompt, or with the empty string as prompt, it holds no system message;
\* a system message is never at another position than the first.
C17_SystemPrompt ==
    RunStarted =>
        IF scenario.config.system_prompt # None /\ scenario.config.system_prompt[1] # <<>>
        THEN SystemFirst(scenario.config.system_prompt[1])
        ELSE NoSystemMessage

\* A run with a non-empty system prompt made two generate calls and returned.
C17_Witness ==
    /\ run_outcome = "returned"
    /\ scenario.config.system_prompt = Some(<<"s", "y", "s">>)
    /\ Len(calls) = 2
    /\ returned[1].messages[1].role = "system"
    /\ returned[1].messages[2].role = "user"

\* C17 as stated: with a system prompt set to any text, the transcript
\* starts with exactly one system message holding it; with none set, it
\* holds no system message.
C17_SystemPromptAnyText ==
    RunStarted =>
        IF scenario.config.system_prompt # None
        THEN SystemFirst(scenario.config.system_prompt[1])
        ELSE NoSystemMessage

\* The turn an entry of the call log must have added.
TurnOpNames == {"add_turn", "add_user_input", "add_state_check"}
AddedTurn(o) ==
    IF o.op = "add_turn" THEN o.turn
    ELSE IF o.op = "add_user_input"
    THEN [turn_type |-> USER_INPUT, content |-> o.content,
          expected_patterns |-> IF o.expected_patterns = None THEN <<>>
                                ELSE o.expected_patterns[1]]
    ELSE [turn_type |-> STATE_CHECK, content |-> o.description,
          expected_patterns |-> o.expected_patterns]
\* The turns and the validators the first n calls of the log added, in call
\* order.
TurnsAdded(n) ==
    LET added == SelectSeq(SubSeq(ops, 1, n), LAMBDA o : o.op \in TurnOpNames)
    IN  [k \in 1..Len(added) |-> AddedTurn(added[k])]
ValidatorsAdded(n) ==
    LET added == SelectSeq(SubSeq(ops, 1, n), LAMBDA o : o.op = "add_validator")
    IN  [k \in 1..Len(added) |-> added[k].validator]
\* The positions of the UserInput turns in the scenario, in order.
UserTurnIndexes ==
    SelectSeq([k \in 1..Len(scenario.turns) |-> k],
              LAMBDA k : scenario.turns[k].turn_type = USER_INPUT)

C18_BuiltInOrder ==
    /\ scenario.turns = TurnsAdded(Len(ops))
    /\ scenario.validators = ValidatorsAdded(Len(ops))
    /\ \A n \in 1..Len(ops) :
          /\ ops[n].returned.turns = TurnsAdded(n)
          /\ ops[n].returned.validators = ValidatorsAdded(n)
          /\ ops[n].returned.config = scenario.config
    /\ Len(calls) <= Len(UserTurnIndexes)
    /\ \A n \in 1..Len(calls) :
          /\ calls[n].turn = UserTurnIndexes[n]
          /\ calls[n].args.messages[Len(calls[n].args.messages)].content
                = scenario.turns[UserTurnIndexes[n]].content
    /\ run_outcome = "returned" => Len(calls) = Len(UserTurnIndexes)

\* C18: after any sequence of add_turn, add_user_input, add_state_check and
\* add_validator calls the turns are the added turns in call order and the
\* validators the added validators in call order; a call returns the
\* scenario as it is after the call; no step removes, replaces or reorders
\* an earlier turn or validator; run_scenario takes the turns in that order.
C18_AppendInCallOrder ==
    /\ []C18_BuiltInOrder
    /\ [][/\ IsPrefix(scenario.turns, scenario'.turns)
           /\ IsPrefix(scenario.validators, scenario'.validators)
           /\ scenario'.config = scenario.config]_vars

\* A state check and a user input were added, each followed by a
\* validator, and the scenario was run to the end.
C18_Witness ==
    /\ run_outcome = "returned"
    /\ Len(ops) = 4
    /\ ops[1].op = "add_state_check"
    /\ ops[2].op = "add_validator"
    /\ ops[3].op = "add_user_input"
    /\ ops[4].op = "add_validator"
    /\ Len(calls) = 1
    /\ calls[1].turn = 2

\* A message list that breaks the precondition of generate: it is empty, or
\* one of its messages has no role, no content, or a role that is none of
\* system, user, assistant.
Malformed(messages) ==
    \/ Len(messages) = 0
    \/ \E k \in 1..Len(messages) :
          \/ "role" \notin DOMAIN messages[k]
          \/ "content" \notin DOMAIN messages[k]
          \/ ~(\E r \in {"system", "user", "assistant"} : messages[k].role = r)

\* C19: generate called with a malformed message list raises, the adapter
\* returns no response, and call_count and response_index of the scripted
\* adapter are what they were before the call, so no scripted response is
\* used up: the next well-formed call still gets it.
C19_InvalidInput ==
    (out # None /\ out[1].op = "generate" /\ Malformed(out[1].messages)) =>
        /\ out[1].raised
        /\ out[1].response = None
        /\ out[1].after.call_count = out[1].before.call_count
        /\ out[1].after.response_index = out[1].before.response_index
        /\ out[1].after.responses = out[1].before.responses

\* A malformed list was handed to an adapter that had answered one call and
\* still had a scripted response left.
C19_Witness ==
    /\ out # None
    /\ out[1].op = "generate"
    /\ out[1].raised
    /\ out[1].before.call_count = 1
    /\ out[1].before.response_index = 1
    /\ Len(out[1].before.responses) = 2
    /\ llm = out[1].after

\* The fragments of a stream put together, in order.
RECURSIVE Concat(_)
Concat(chunks) == IF chunks = <<>> THEN <<>> ELSE Head(chunks) \o Concat(Tail(chunks))
\* The content generate returns for the adapter state and the arguments a
\* call started with.
GenerateContent(o) ==
    generate(o.before, o.messages, o.sampling.temperature,
             o.sampling.max_tokens).response[1].content

\* C20: the fragments of generate_stream, put together in order, are the
\* content generate returns for the same adapter state and messages, and
\* they are finitely many.
C20_StreamConcatenation ==
    (out # None /\ out[1].op = "generate_stream" /\ ~out[1].raised) =>
        /\ Concat(out[1].chunks) = GenerateContent(out[1])
        /\ Len(out[1].chunks) <= Len(GenerateContent(out[1]))

\* C20, what the code does keep: the fragments are the words of that
\* content, each followed by one space, and both calls leave the adapter
\* in the same state.
C20_StreamWordsOfContent ==
    (out # None /\ out[1].op = "generate_stream" /\ ~out[1].raised) =>
        /\ out[1].chunks =
              [k \in 1..Len(split(GenerateContent(out[1]))) |->
                  split(GenerateContent(out[1]))[k] \o <<" ">>]
        /\ Len(out[1].chunks) <= Len(GenerateContent(out[1]))
        /\ out[1].after = generate(out[1].before, out[1].messages,
                                   out[1].sampling.temperature,
                                   out[1].sampling.max_tokens).llm

\* C21: the result of evaluate carries the scenario's configured name and
\* the model name found in the transcript's metadata, or "unknown" when the
\* metadata has none; run_scenario stores the scenario name and the
\* adapter's model identifier in the metadata when it starts, so the result
\* of evaluating a transcript it returned carries these two.
C21_ResultStamps ==
    /\ RunStarted =>
          /\ DOMAIN history.metadata = {"scenario_name", "model_name"}
          /\ history.metadata.scenario_name = scenario.config.name
          /\ history.metadata.model_name = ModelName
    /\ \A e \in Evaluations :
          /\ e.result.scenario_name = scenario.config.name
          /\ e.result.scenario_name = returned[1].metadata.scenario_name
          /\ e.result.model_name = ModelName
    /\ (out # None /\ out[1].op = "evaluate") =>
          /\ out[1].result.scenario_name = out[1].scenario.config.name
          /\ out[1].result.model_name =
                IF "model_name" \in DOMAIN out[1].history.metadata
                THEN out[1].history.metadata.model_name
                ELSE "unknown"

\* A transcript run_scenario returned and a hand-built transcript without
\* metadata were both evaluated.
C21_Witness ==
    /\ results # <<>>
    /\ results[1].result.model_name = ModelName
    /\ out # None
    /\ out[1].op = "evaluate"
    /\ out[1].history.metadata = <<>>
    /\ out[1].result.model_name = "unknown"
    /\ out[1].result.scenario_name = "test"

\* C22: the name of every scenario is non-empty, and so is the scenario
\* name in the metadata of every transcript and in every evaluation result.
C22_NonEmptyName ==
    /\ scenario.config.name # ""
    /\ RunStarted => history.metadata.scenario_name # ""
    /\ returned # None => returned[1].metadata.scenario_name # ""
    /\ \A e \in Evaluations : e.result.scenario_name # ""
    /\ (out # None /\ out[1].op = "evaluate") => out[1].result.scenario_name # ""

\* C22, what the code does keep: the name given to ScenarioConfig, empty or
\* not, is the one every transcript and every result carries.
C22_NameCarriedThrough ==
    /\ scenario.config.name \in ConfigNames
    /\ returned # None => returned[1].metadata.scenario_name = scenario.config.name
    /\ \A e \in Evaluations : e.result.scenario_name = scenario.config.name

\* The position of turn k among the pattern-bearing turns of the scenario.
PatternRank(k) ==
    Cardinality({j \in 1..k : scenario.turns[j].expected_patterns # <<>>})
\* Evaluation e scored turn k against the response generate returned for
\* that turn in the latest run.
ScoredOnOwnResponse(e, k) ==
    \E n \in 1..Len(calls) :
        /\ calls[n].turn = k
        /\ n <= Len(returned[1].responses)
        /\ e.patterns[k].response = Some(n - 1)
        /\ "matched" \in DOMAIN e.result.metrics[PatternRank(k)].details
        /\ e.result.metrics[PatternRank(k)].details.matched =
              SelectSeq(scenario.turns[k].expected_patterns,
                        LAMBDA p : Matches(p, returned[1].responses[n].content))

\* C23: after a run to completion, evaluating the returned transcript
\* against the scenario that was run scores every UserInput turn that
\* declares patterns against the response generated for that very turn,
\* whatever other turns the scenario holds.
C23_OwnResponse ==
    (run_outcome = "returned" /\ fresh) =>
        \A e \in Evaluations :
            \A k \in 1..Len(scenario.turns) :
                (/\ scenario.turns[k].turn_type = USER_INPUT
                 /\ scenario.turns[k].expected_patterns # <<>>)
                    => ScoredOnOwnResponse(e, k)

\* C23, what the code does keep: a pattern-bearing UserInput turn is scored
\* against its own response when every turn before it is a UserInput turn
\* that declares patterns.
C23_OwnResponseAfterPatternTurns ==
    (run_outcome = "returned" /\ fresh) =>
        \A e \in Evaluations :
            \A k \in 1..Len(scenario.turns) :
                (\A j \in 1..k : /\ scenario.turns[j].turn_type = USER_INPUT
                                  /\ scenario.turns[j].expected_patterns # <<>>)
                    => ScoredOnOwnResponse(e, k)

\* C24: in every result evaluate returns, no two metrics have the same
\* name, and get_metric called with the name of a metric returns that metric.
C24_DistinctMetricNames ==
    \A e \in Evaluations :
        LET ms == e.result.metrics
        IN  /\ \A a, b \in 1..Len(ms) : a # b => ms[a].name # ms[b].name
            /\ \A k \in 1..Len(ms) : get_metric(e.result, ms[k].name) = Some(ms[k])

\* C24, what the code does keep: the names are distinct as long as at most
\* one pattern-bearing turn found no response.
C24_DistinctUnlessExhaustedTwice ==
    \A e \in Evaluations :
        LET ms == e.result.metrics
            exhausted == {k \in 1..Len(ms) : /\ ms[k].name[1] = "pattern_match_turn"
                                              /\ "error" \in DOMAIN ms[k].details}
        IN  Cardinality(exhausted) <= 1 =>
                /\ \A a, b \in 1..Len(ms) : a # b => ms[a].name # ms[b].name
                /\ \A k \in 1..Len(ms) : get_metric(e.result, ms[k].name) = Some(ms[k])

\* C25: when generate raises during continue_conversation, the call ends
\* with that failure, no response is returned, the adapter is not called
\* again, and the transcript handed in is what it was before the call.
C25_FailureLeavesTranscript ==
    (out # None /\ out[1].op = "continue_conversation" /\ out[1].raised) =>
        /\ out[1].response = None
        /\ out[1].after.responses = out[1].before.responses
        /\ out[1].after.messages = out[1].before.messages

\* C25, what the code does keep: the failure ends the call, no response is
\* returned or recorded, and the transcript has gained the user message,
\* which generate was called with as the last message.
C25_FailureLeavesUserMessage ==
    (out # None /\ out[1].op = "continue_conversation" /\ out[1].raised) =>
        /\ out[1].response = None
        /\ out[1].after.responses = out[1].before.responses
        /\ out[1].after.messages =
              Append(out[1].before.messages,
                     [role |-> "user", content |-> out[1].input.user_input])
        /\ out[1].args.messages = out[1].after.messages

\* The messages of transcript h after its leading system message, if any.
AfterSystem(h) ==
    IF h.messages # <<>> /\ h.messages[1].role = "system"
    THEN Tail(h.messages) ELSE h.messages

\* C26: in the transcript run_scenario returns, the messages after the
\* optional system message are user, assistant, user, assistant, ...: the
\* i-th user message holds the content of the i-th UserInput turn and the
\* assistant message after it the content of the i-th response, which is
\* what generate returned when it was called for that turn.
C26_Alternation ==
    (run_outcome = "returned" /\ fresh) =>
        LET h == returned[1]
            body == AfterSystem(h)
            N == Len(UserTurnIndexes)
        IN  /\ Len(body) = 2 * N
            /\ Len(h.responses) = N
            /\ Len(calls) = N
            /\ \A n \in 1..Len(body) :
                  body[n].role = IF n % 2 = 1 THEN "user" ELSE "assistant"
            /\ \A n \in 1..N :
                  /\ body[2 * n - 1].content = scenario.turns[UserTurnIndexes[n]].content
                  /\ body[2 * n].content = h.responses[n].content
                  /\ calls[n].turn = UserTurnIndexes[n]
                  /\ calls[n].response = Some(h.responses[n])

\* A run with a system prompt and two different UserInput turns returned a
\* transcript of five messages with two different responses.
C26_Witness ==
    /\ run_outcome = "returned"
    /\ fresh
    /\ Len(returned[1].messages) = 5
    /\ returned[1].messages[1].role = "system"
    /\ returned[1].responses[1].content # returned[1].responses[2].content
    /\ scenario.turns[1].content # scenario.turns[2].content

\* The content the echo mode must give for a message list.
EchoOf(messages) ==
    LET user_messages == SelectSeq(messages, LAMBDA m : m.role = "user")
    IN  IF user_messages # <<>>
        THEN EchoPrefix \o user_messages[Len(user_messages)].content
        ELSE NoUserInputContent

\* C27: the n-th successful generate call since construction or the last
\* reset returns the n-th scripted response while there is one, and after
\* that the echo of the last user message of the call (a fixed text when
\* the call has no user message); response_index never exceeds the number
\* of scripted responses, and call_count is the number of successful
\* generate calls since construction or the last reset.
C27_ScriptedThenEcho ==
    /\ llm.response_index <= Len(llm.responses)
    /\ llm.call_count = Len(ops)
    /\ llm.response_index =
          IF Len(ops) <= Len(llm.responses) THEN Len(ops) ELSE Len(llm.responses)
    /\ \A n \in 1..Len(ops) :
          ops[n].content = IF n <= Len(llm.responses) THEN llm.responses[n]
                           ELSE EchoOf(ops[n].messages)
    /\ (out # None /\ out[1].op = "generate" /\ ~out[1].raised) =>
          /\ out[1].response[1].content = ops[Len(ops)].content
          /\ out[1].response[1].metadata.call_count = Len(ops)

\* An adapter with two scripted responses answered three calls, the third
\* with the echo of its user message.
C27_Witness ==
    /\ Len(llm.responses) = 2
    /\ Len(ops) = 3
    /\ llm.response_index = 2
    /\ ops[1].content = llm.responses[1]
    /\ ops[3].content = EchoPrefix \o <<"h", "i">>
    /\ out # None
    /\ out[1].op = "generate"

\* Every reset in the call log left both counters at 0 and the script as it
\* was.
ResetsToZero ==
    \A n \in 1..Len(ops) :
        ops[n].op = "reset" =>
            /\ ops[n].after.call_count = 0
            /\ ops[n].after.response_index = 0
            /\ ops[n].after.responses = ops[n].before.responses
\* The adapter a call of the log started with is at the start of its script.
AtScriptStart(o) == o.before.call_count = 0 /\ o.before.response_index = 0
\* Entries n, n + 1, n + 2 of the log are a run, a reset and a run.
RunResetRun(n) ==
    /\ n + 2 <= Len(ops)
    /\ ops[n].op = "run_scenario"
    /\ ops[n + 1].op = "reset"
    /\ ops[n + 2].op = "run_scenario"
SameMessages(a, b) ==
    /\ a.returned # None
    /\ b.returned # None
    /\ a.returned[1].messages = b.returned[1].messages

\* C28 as amended: reset puts call_count and response_index back to 0 from
\* any state; running a scenario on an adapter that is at the start of its
\* script (new, or just reset), calling reset, and running the same scenario
\* again gives two transcripts with the same messages.
C28_ResetReplays ==
    /\ ResetsToZero
    /\ \A n \in 1..Len(ops) :
          (RunResetRun(n) /\ AtScriptStart(ops[n])) => SameMessages(ops[n], ops[n + 2])

\* A scenario with a UserInput turn was run on a new adapter with a script,
\* the adapter was reset, and the scenario was run again.
C28_Witness ==
    /\ RunResetRun(1)
    /\ ops[1].before.responses # <<>>
    /\ ops[1].returned # None
    /\ ops[1].returned[1].responses # <<>>
    /\ ops[2].before.response_index > 0
    /\ ops[3].returned = ops[1].returned

\* C28 as stated: reset puts both counters back to 0, and running a
\* scenario, calling reset, and running the same scenario again gives two
\* transcripts with the same messages.
C28_ResetReplaysFromAnyState ==
    /\ ResetsToZero
    /\ \A n \in 1..Len(ops) : RunResetRun(n) => SameMessages(ops[n], ops[n + 2])

\* The messages the add_message and add_response calls of the log put into
\* the transcript, in call order.
MessagesFromOps ==
    [k \in 1..Len(ops) |->
        IF ops[k].op = "add_message"
        THEN [role |-> ops[k].role, content |-> ops[k].content]
        ELSE [role |-> "assistant", content |-> ops[k].response.content]]

\* C29: get_messages returns a list with the transcript's messages in
\* order, and appending to or removing from that list, by the caller or by
\* an adapter that was given it in generate, leaves the transcript's own
\* messages as the add_message and add_response calls made them.
C29_GetMessagesCopies ==
    /\ transcript.messages = MessagesFromOps
    /\ (out # None /\ out[1].op = "get_messages") =>
          out[1].returned = out[1].messages

\* The caller removed a message from the list get_messages had returned
\* for a transcript with a response, and the transcript kept its messages.
C29_Witness ==
    /\ out # None
    /\ out[1].op = "pop"
    /\ held # None
    /\ transcript.responses # <<>>
    /\ Len(held[1].items) < Len(transcript.messages)
    /\ Len(transcript.messages) >= 3

\* C30: register_validator adds or replaces the entry under the given name
\* and removes none; evaluate leaves the mapping as it was, invokes only the
\* validators of the scenario, and returns the result an evaluator with
\* nothing registered returns for the same transcript and scenario.
C30_RegistryOnlyLookup ==
    /\ (out # None /\ out[1].op = "register_validator") =>
          LET b == out[1].before.custom_validators
              a == out[1].after.custom_validators
          IN  /\ DOMAIN a = DOMAIN b \cup {out[1].name}
              /\ a[out[1].name] = out[1].validator
              /\ \A k \in DOMAIN b \ {out[1].name} : a[k] = b[k]
    /\ (out # None /\ out[1].op = "evaluate") =>
          /\ out[1].after = out[1].before
          /\ Len(out[1].validators) <= Len(out[1].scenario.validators)
          /\ out[1].result =
                Evaluator_evaluate(NewEvaluator, out[1].history,
                                   out[1].scenario).outcome.result

\* evaluate ran with a failing and a raising validator registered, on a
\* scenario with a validator of its own and a transcript with a response.
C30_Witness ==
    /\ out # None
    /\ out[1].op = "evaluate"
    /\ DOMAIN out[1].before.custom_validators = {"test", "other"}
    /\ out[1].before.custom_validators["test"].name = "boom"
    /\ out[1].before.custom_validators["other"].name = "always_fail"
    /\ Len(out[1].scenario.validators) = 1
    /\ out[1].history.responses # <<>>
    /\ Len(out[1].result.metrics) = 1

====
